---- MODULE Spec2Model ----
(***************************************************************************)
(* The ingestion client of the analytics SDK (src/src/apidash/client.py):  *)
(* the in-memory buffer, the background flush thread, the send / retry /   *)
(* backoff state machine, the spill file and the shutdown protocol.        *)
(*                                                                         *)
(* Threads: the background worker (thread 0, ApiDashClient._run) and       *)
(* NumCallers host threads that call track(), flush() and shutdown().      *)
(* Every block the code runs under self._lock is one atomic step; what it  *)
(* runs outside the lock (the network send, the disk write of the          *)
(* non-retryable path, the recovery-file cleanup, on_error) is a step of   *)
(* its own, so other threads interleave exactly where the code lets them.  *)
(*                                                                         *)
(* Time is the monotonic clock in ticks of 1/TicksPerSecond seconds.       *)
(* Sizes are in abstract bytes: one event serializes to one byte and a     *)
(* line of the spill file to one byte per event plus one for the newline.  *)
(***************************************************************************)
EXTENDS Integers, Sequences, FiniteSets, TLC

\* ------------------------------------------------------------------ bounds
\* Host threads calling the public API beside the worker.
NumCallers == 2
\* Events track() accepts in one behaviour of Spec (event ids 1..MaxTrack).
MaxTrack == 1
\* DiskSpec: events accepted by track() in one run.
MaxDiskTrack == 3
\* RecoverySpec: constructor calls that return a client.
MaxBoots == 2
\* track() calls in one behaviour of TrackSpec.
MaxTrackCalls == 3
\* _send calls in one behaviour of SendSpec.
MaxSendCalls == 2
\* Last clock value the model looks at.
MaxNow == 16
\* Clock ticks per second.
TicksPerSecond == 2
\* The options the client is constructed with, scaled down.
batch_size == 2
max_buffer_size == 2
max_storage_bytes == 3
max_event_bytes == 2400
\* FlowSpec: the max_buffer_size option of its client, and the events its
\* producer tracks.
wide_max_buffer_size == 4
MaxFlowTrack == 4
MaxRetryTrack == 3
MaxLines == 3
MaxClients == 3
MaxSignals == 2

\* ------------------------------------------------------- program constants
MAX_CONSECUTIVE_FAILURES == 5
BASE_BACKOFF_S == 1
MAX_PATH_LENGTH == 2048
MAX_METHOD_LENGTH == 16
MAX_CONSUMER_ID_LENGTH == 256

VARIABLES
    buffer,                \* self._buffer: the queued events, oldest first
    in_flight,             \* self._in_flight
    consecutive_failures,  \* self._consecutive_failures
    backoff_until,         \* self._backoff_until (0 = cleared)
    shutdown_flag,         \* self._shutdown
    done,                  \* self._done (threading.Event)
    wake,                  \* self._wake (threading.Event)
    recovery_path,         \* self._recovery_path is set
    spill,                 \* the file at storage_path
    recovering,            \* the file at storage_path + ".recovering"
    now,                   \* time.monotonic()
    nextId,                \* id of the next event handed to track()
    pc,                    \* each thread's position
    batch,                 \* each thread's local batch / remaining list
    ev,                    \* the sanitized event a track() call is about to append
    ctx,                   \* who called flush: the worker, flush() or shutdown()
    err,                   \* the exception _do_flush passes to on_error
    snap,                  \* <<consecutive_failures, backoff_until>> when the batch was drawn
    trackRaised,           \* an exception left track() towards its caller
    self_max_buffer_size,  \* self._max_buffer_size
    handler_installed,     \* _signal_handler is the process's SIGTERM/SIGINT handler
    original_handlers,     \* self._original_handlers holds the previous handlers
    prev_handler,          \* the handler installed before the client
    chain,                 \* the process's handler table and the _original_handlers of several clients
    sig,                   \* the signal handler running on the main thread
    forwarded,             \* what _signal_handler did with the signal at its end
    proc,                  \* the process: no client yet, constructor raised, running, dead
    worker_started,        \* self._thread.start() has run in this process
    atexit_hook,           \* _atexit_handler is registered with atexit
    hist,                  \* constructions, replays, acknowledgements and deliveries so far
    lastTrack,             \* TrackSpec: the track() calls made, the last one's input and caller
    sendIn,                \* SendSpec: the outcome urlopen produced
    sendOut,               \* SendSpec: what _do_flush made of it
    sendCalls,             \* SendSpec: calls of _send
    sendAttempts,          \* SendSpec: calls of urlopen
    call                   \* ValidateSpec: the last call of a validation function

clientVars == <<buffer, in_flight, consecutive_failures, backoff_until,
                shutdown_flag, done, wake, recovery_path, spill, recovering,
                now, nextId, pc, batch, ev, ctx, err, snap, trackRaised,
                self_max_buffer_size>>
handlerVars == <<handler_installed, original_handlers>>
hostVars == <<prev_handler, chain, sig, forwarded, proc, worker_started, atexit_hook>>
sendVars == <<sendIn, sendOut, sendCalls, sendAttempts>>
vars == <<clientVars, handlerVars, hostVars, hist, lastTrack, sendVars, call>>

Worker == 0
Callers == 1..NumCallers
\* The thread the client is constructed on and signals are delivered to.
Main == 1
Threads == {Worker} \cup Callers

\* ----------------------------------------------------------------- helpers
Min(a, b) == IF a < b THEN a ELSE b

\* s[:n]
Take(s, n) == SubSeq(s, 1, Min(n, Len(s)))

\* s[n:]
Drop(s, n) == SubSeq(s, Min(n, Len(s)) + 1, Len(s))

RECURSIVE Pow2(_)
Pow2(n) == IF n <= 0 THEN 1 ELSE 2 * Pow2(n - 1)

Elems(s) == {s[i] : i \in 1..Len(s)}

\* ------------------------------------------------------------------- files
\* A file is absent or holds lines; a line written by _persist_to_disk is a
\* JSON array of events.
NoFile == [exists |-> FALSE, lines |-> <<>>]

FileOf(ls) == [exists |-> TRUE, lines |-> ls]

ArrayLine(events) == [kind |-> "array", items |-> events]

\* len(line.encode()): one byte per event and the newline.
LineBytes(line) == Len(line.items) + 1

RECURSIVE LinesBytes(_)
LinesBytes(ls) == IF ls = <<>> THEN 0 ELSE LineBytes(ls[1]) + LinesBytes(Tail(ls))

\* os.path.getsize(path), 0 when the file is absent (OSError).
FileSize(f) == IF f.exists THEN LinesBytes(f.lines) ELSE 0

\* The size check of _persist_to_disk: the write goes ahead.
StorageHasRoom(f) == FileSize(f) < max_storage_bytes

\* The write of _persist_to_disk once the size check has passed. writeOk is
\* FALSE when os.open / os.write raises; the exception is swallowed.
write_line(f, events, writeOk) ==
    IF writeOk THEN FileOf(Append(f.lines, ArrayLine(events))) ELSE f

\* A faulty _persist_to_disk that writes one line per event; FailureCapSpills
\* must tell it from the real one.
persist_line_per_event(f, events, writeOk) ==
    IF FileSize(f) >= max_storage_bytes \/ ~writeOk THEN f
    ELSE FileOf(f.lines \o [i \in 1..Len(events) |-> ArrayLine(<<events[i]>>)])

\* _persist_to_disk(events) run in one piece: the file afterwards.
persist_to_disk(f, events, writeOk) ==
    IF ~StorageHasRoom(f) THEN f
    ELSE write_line(f, events, writeOk)

\* json.loads(line) as _load_from_disk uses it: the events a line yields.
ParseLine(line) ==
    CASE line.kind = "array" -> line.items
      [] line.kind = "object" -> Take(line.items, 1)
      [] OTHER -> <<>>

\* The loop over content.splitlines(): stops once max_buffer_size is reached.
RECURSIVE ReadEvents(_, _)
ReadEvents(ls, acc) ==
    IF ls = <<>> THEN acc
    ELSE LET acc2 == acc \o ParseLine(ls[1])
         IN IF Len(acc2) >= max_buffer_size THEN acc2
            ELSE ReadEvents(Tail(ls), acc2)

\* self._buffer.extend(events[: self._max_buffer_size])
LoadedEvents(f) == Take(ReadEvents(f.lines, <<>>), max_buffer_size)

\* _load_from_disk on an empty buffer: the recovery file first, then the
\* spill file, which is renamed to the .recovering path. renameOk is FALSE
\* when os.rename raises OSError: the spill file is then unlinked, and stays
\* when os.unlink raises as well (unlinkOk FALSE); self._recovery_path is
\* set to the .recovering path all the same.
load_from_disk(rec, sp, renameOk, unlinkOk) ==
    IF rec.exists
    THEN [buffer |-> LoadedEvents(rec), recovering |-> rec, spill |-> sp,
          recovery_path |-> TRUE]
    ELSE IF sp.exists
    THEN [buffer |-> LoadedEvents(sp),
          recovering |-> IF renameOk THEN sp ELSE rec,
          spill |-> IF renameOk \/ unlinkOk THEN NoFile ELSE sp,
          recovery_path |-> TRUE]
    ELSE [buffer |-> <<>>, recovering |-> rec, spill |-> sp,
          recovery_path |-> FALSE]

\* What a previous process may have left at <<the .recovering path, the
\* storage path>>: nothing; a recovery file of event 11 beside a spill file
\* of event 12; a spill file of one batch of events 11, 12, 13.
InitialDisks ==
    { <<NoFile, NoFile>>,
      <<FileOf(<<ArrayLine(<<11>>)>>), FileOf(<<ArrayLine(<<12>>)>>)>>,
      <<NoFile, FileOf(<<ArrayLine(<<11, 12, 13>>)>>)>> }

\* --------------------------------------------------------------- addresses
\* A host string, by its form: a DNS name; four dot-separated groups of one
\* to three digits without leading zeros; ::ffff:a.b.c.d; or the IPv6
\* literal h1:h2:0:0:0:0:0:low. parts holds the numbers; None is
\* parsed.hostname of a URL without a host.
NameHost(n) == [kind |-> "name", text |-> n, parts |-> <<>>]
DottedHost(a, b, c, d) == [kind |-> "dotted", text |-> "", parts |-> <<a, b, c, d>>]
MappedHost(a, b, c, d) == [kind |-> "mapped", text |-> "", parts |-> <<a, b, c, d>>]
V6Host(h1, h2, low) == [kind |-> "v6", text |-> "", parts |-> <<h1, h2, low>>]
NoHost == [kind |-> "none", text |-> "", parts |-> <<>>]

\* _PRIVATE_IP_RE.match(host): 10.x.x.x, 172.16-31.x.x, 192.168.x.x with
\* any groups of one to three digits, and 0.0.0.0.
private_ip_re(h) ==
    /\ h.kind = "dotted"
    /\ \/ h.parts[1] = 10
       \/ h.parts[1] = 172 /\ h.parts[2] \in 16..31
       \/ h.parts[1] = 192 /\ h.parts[2] = 168
       \/ h.parts = <<0, 0, 0, 0>>

\* ipaddress.ip_address(host) raises ValueError: not an IP literal.
not_an_address(h) ==
    \/ h.kind \in {"name", "none"}
    \/ h.kind = "dotted" /\ \E i \in 1..4 : h.parts[i] > 255

\* IPv4Address.is_private: the networks 0.0.0.0/8, 10.0.0.0/8, 127.0.0.0/8,
\* 169.254.0.0/16, 172.16.0.0/12, 192.0.0.0/29, 192.0.0.170/31,
\* 192.0.2.0/24, 192.168.0.0/16, 198.18.0.0/15, 198.51.100.0/24,
\* 203.0.113.0/24, 240.0.0.0/4 and 255.255.255.255/32.
v4_is_private(q) ==
    \/ q[1] \in {0, 10, 127}
    \/ q[1] = 169 /\ q[2] = 254
    \/ q[1] = 172 /\ q[2] \in 16..31
    \/ q[1] = 192 /\ q[2] = 0 /\ q[3] = 0 /\ q[4] \in (0..7) \cup {170, 171}
    \/ q[1] = 192 /\ q[2] = 0 /\ q[3] = 2
    \/ q[1] = 192 /\ q[2] = 168
    \/ q[1] = 198 /\ q[2] \in {18, 19}
    \/ q[1] = 198 /\ q[2] = 51 /\ q[3] = 100
    \/ q[1] = 203 /\ q[2] = 0 /\ q[3] = 113
    \/ q[1] >= 240

\* IPv4Address.is_loopback (127.0.0.0/8), is_link_local (169.254.0.0/16).
v4_is_loopback(q) == q[1] = 127
v4_is_link_local(q) == q[1] = 169 /\ q[2] = 254

\* IPv6Address.is_link_local: fe80::/10.
v6_is_link_local(q) == q[1] \in 65152..65215

\* IPv6Address.is_loopback: ::1.
v6_is_loopback(q) == q = <<0, 0, 1>>

\* IPv6Address.is_private of an address that is not IPv4-mapped: ::1, ::,
\* 100::/64, 2001::/23, 2001:2::/48, 2001:db8::/32, 2001:10::/28, fc00::/7
\* and fe80::/10.
v6_is_private(q) ==
    \/ q = <<0, 0, 1>>
    \/ q = <<0, 0, 0>>
    \/ q[1] = 256 /\ q[2] = 0
    \/ q[1] = 8193 /\ q[2] < 512
    \/ q[1] = 8193 /\ q[2] = 3512
    \/ q[1] \in 64512..65023
    \/ v6_is_link_local(q)

\* is_private_ip(host)
is_private_ip(h) ==
    IF private_ip_re(h) THEN TRUE
    ELSE IF not_an_address(h) THEN FALSE
    ELSE IF h.kind \in {"v6", "mapped"}
    THEN IF h.kind = "mapped"
         THEN v4_is_private(h.parts) \/ v4_is_loopback(h.parts)
                 \/ v4_is_link_local(h.parts)
         ELSE v6_is_private(h.parts) \/ v6_is_loopback(h.parts)
                 \/ v6_is_link_local(h.parts)
    ELSE v4_is_private(h.parts) \/ v4_is_loopback(h.parts)
            \/ v4_is_link_local(h.parts)

\* The first and second groups the checked addresses are built from.
FirstGroups == {0, 8, 10, 100, 127, 169, 172, 192, 198}
SecondGroups == {0, 15, 16, 31, 32, 63, 64, 127, 128, 168, 254, 999}

\* The hosts is_private_ip is called with.
Hosts ==
    {DottedHost(a, b, 0, d) : a \in FirstGroups, b \in SecondGroups, d \in {0, 1}}
    \cup {MappedHost(a, b, 0, d) :
             a \in FirstGroups, b \in SecondGroups \ {999}, d \in {0, 1}}
    \cup {V6Host(h, 0, d) : h \in {0, 9734, 64512, 64768, 65152}, d \in {0, 1}}
    \cup {NameHost(n) : n \in {"example.com", "localhost"}}

\* ----------------------------------------------------------------- options
\* An api_key is its sequence of character codes.
ApiKeys == { <<>>, <<107, 10>>, <<107, 101, 121>> }

\* _CONTROL_CHAR_RE.search(api_key): a character in \x00-\x1f or \x7f.
has_control_char(k) == \E i \in 1..Len(k) : k[i] \in (0..31) \cup {127}

\* An endpoint is what urlparse makes of it: the scheme, the host, and the
\* username and password, "absent" when the URL has none (None); empty is
\* the empty string.
Endpoint(empty, scheme, hostname, username, password) ==
    [empty |-> empty, scheme |-> scheme, hostname |-> hostname,
     username |-> username, password |-> password]

\* "", "http://example.com", "https://user:pw@example.com",
\* "https://10.0.0.1", "example.com", "http://localhost" and
\* "https://example.com".
Endpoints ==
    { Endpoint(TRUE, "", NoHost, "absent", "absent"),
      Endpoint(FALSE, "http", NameHost("example.com"), "absent", "absent"),
      Endpoint(FALSE, "https", NameHost("example.com"), "user", "pw"),
      Endpoint(FALSE, "https", DottedHost(10, 0, 0, 1), "absent", "absent"),
      Endpoint(FALSE, "", NoHost, "absent", "absent"),
      Endpoint(FALSE, "http", NameHost("localhost"), "absent", "absent"),
      Endpoint(FALSE, "https", NameHost("example.com"), "absent", "absent") }

\* hostname in ("localhost", "127.0.0.1", "::1")
is_localhost(h) ==
    h \in {NameHost("localhost"), DottedHost(127, 0, 0, 1), V6Host(0, 0, 1)}

\* A value of the parse result is truthy: neither None nor "".
Truthy(x) == x \notin {"absent", ""}

\* validate_endpoint(endpoint) raises ValueError.
endpoint_rejected(ep) ==
    \/ ep.empty
    \/ ep.scheme = "" \/ ep.hostname = NoHost
    \/ ep.scheme # "https" /\ ~is_localhost(ep.hostname)
    \/ Truthy(ep.username) \/ Truthy(ep.password)
    \/ ~is_localhost(ep.hostname) /\ is_private_ip(ep.hostname)

\* validate_endpoint(endpoint): raises, or returns the endpoint it was given.
validate_endpoint(ep) == [raised |-> endpoint_rejected(ep), value |-> ep]

\* A faulty validation that does not look for control characters;
\* ConstructFailsClean must tell it from the real one.
config_error_without_control_check(o) ==
    \/ o.api_key = <<>>
    \/ o.endpoint.empty
    \/ endpoint_rejected(o.endpoint)

\* The validation at the head of __init__ raises ValueError.
config_error(o) ==
    \/ o.api_key = <<>>
    \/ has_control_char(o.api_key)
    \/ o.endpoint.empty
    \/ endpoint_rejected(o.endpoint)

OptionsSet == [api_key : ApiKeys, endpoint : Endpoints]

\* The options of the client Spec starts from.
ValidOptions ==
    [api_key |-> <<107, 101, 121>>,
     endpoint |-> Endpoint(FALSE, "https", NameHost("example.com"), "absent",
                           "absent")]

\* ------------------------------------------------------------------ sender
\* A faulty status set that leaves 429 out; SendClassified must tell it from
\* the real one.
RETRYABLE_WITHOUT_429 == {500, 502, 503, 504}

RETRYABLE_STATUS_CODES == {429, 500, 502, 503, 504}

\* What one urllib.request.urlopen call can produce: a response (urllib hands
\* back only 2xx responses and raises HTTPError for every other status), an
\* HTTPError, a URLError (DNS, connect, TLS, connect timeout) or another
\* exception (a timeout or a reset while the response is read).
Response(s) == [kind |-> "response", status |-> s]
HTTPError(s) == [kind |-> "HTTPError", status |-> s]
URLError == [kind |-> "URLError", status |-> 0]
OtherError == [kind |-> "OtherError", status |-> 0]

UrlopenResults ==
    {Response(s) : s \in 200..299}
        \cup {HTTPError(s) : s \in (100..599) \ (200..299)}
        \cup {URLError, OtherError}

\* _send(events) on the outcome r of its one urlopen call: the exception that
\* leaves _send ("none" when it returns), and the urlopen calls it made.
send(r) ==
    [raised |->
        CASE r.kind = "response" ->
                IF r.status < 200 \/ r.status >= 300
                THEN "_NonRetryableError" ELSE "none"
          [] r.kind = "HTTPError" ->
                IF r.status \in RETRYABLE_STATUS_CODES
                THEN "_RetryableError" ELSE "_NonRetryableError"
          [] r.kind = "URLError" -> "_RetryableError"
          [] OTHER -> "Exception",
     attempts |-> 1]

\* The branch of _do_flush an exception out of _send selects.
do_flush_branch(raised) ==
    CASE raised = "none" -> "ok"
      [] raised = "_NonRetryableError" -> "non_retryable"
      [] OTHER -> "retryable"

\* The outcomes the client model draws a send's result from.
ClientResults == {Response(200), HTTPError(500), HTTPError(401), URLError}

\* ------------------------------------------------------------------- track
\* What a caller may hand to track(): a mapping or RequestEvent of base bytes
\* plus meta bytes of metadata, None, a value dict() rejects, or a mapping
\* json.dumps cannot serialize.
TrackInput(shape, ser, base, meta) ==
    [shape |-> shape, serializable |-> ser, base |-> base, meta |-> meta]

TrackInputs ==
    { TrackInput("mapping", TRUE, 1, 0),
      TrackInput("mapping", TRUE, 1, max_event_bytes),
      TrackInput("mapping", TRUE, max_event_bytes + 1, 0),
      TrackInput("mapping", FALSE, 1, 0),
      TrackInput("none", TRUE, 0, 0),
      TrackInput("scalar", TRUE, 0, 0) }

\* _track_inner up to the size check, for a client that is not shut down:
\* "raise" (dict(event) or json.dumps raised), "drop" (too large without
\* metadata too), "strip" (kept without metadata) or "keep".
sanitize(e) ==
    IF e.shape # "mapping" THEN "raise"
    ELSE IF ~e.serializable THEN "raise"
    ELSE IF e.base + e.meta > max_event_bytes
         THEN IF e.base > max_event_bytes THEN "drop" ELSE "strip"
    ELSE "keep"

\* ---- the fields of an event
\* A value of an event mapping: a missing key, None, a string (a sequence of
\* code points) or a metadata mapping of so many serialized bytes.
Absent == [kind |-> "absent", s |-> <<>>, bytes |-> 0]
None == [kind |-> "none", s |-> <<>>, bytes |-> 0]
Str(s) == [kind |-> "str", s |-> s, bytes |-> 0]
Mapping(n) == [kind |-> "map", s |-> <<>>, bytes |-> n]

\* The string of n characters c.
Repeat(c, n) == [i \in 1..n |-> c]

\* str(d.get(key, "")): the default for a missing key, "None" for None.
str_of(v) ==
    IF v.kind = "absent" THEN <<>>
    ELSE IF v.kind = "none" THEN <<78, 111, 110, 101>>
    ELSE v.s

\* str.upper() of one character: a-z to A-Z, and the sharp s to "SS".
upper_char(c) ==
    IF c \in 97..122 THEN <<c - 32>>
    ELSE IF c = 223 THEN <<83, 83>>
    ELSE <<c>>

RECURSIVE upper(_)
\* str.upper()
upper(s) == IF s = <<>> THEN <<>> ELSE upper_char(Head(s)) \o upper(Tail(s))

\* bool(v) of a field value.
truthy(v) == v.kind = "map" \/ (v.kind = "str" /\ v.s # <<>>)

\* datetime.now(timezone.utc).isoformat(): 32 characters, here all "0".
now_isoformat == Repeat(48, 32)

\* The keys every event carries besides those below serialize to this many
\* bytes: "status_code":200, with its comma.
status_code_bytes == 18

\* The bytes json.dumps writes for a value: null, a quoted string with
\* \uXXXX for each character beyond ASCII, or the metadata mapping.
value_bytes(v) ==
    IF v.kind = "none" THEN 4
    ELSE IF v.kind = "map" THEN v.bytes
    ELSE 2 + Len(v.s) + 5 * Cardinality({i \in 1..Len(v.s) : v.s[i] >= 128})

\* The bytes json.dumps writes for key k with value v, comma included;
\* nothing for a missing key.
item_bytes(k, v) == IF v.kind = "absent" THEN 0 ELSE Len(k) + 4 + value_bytes(v)

\* len(json.dumps(d, separators=(",", ":")).encode())
json_bytes(d) ==
    1 + status_code_bytes
      + item_bytes("method", d.method) + item_bytes("path", d.path)
      + item_bytes("consumer_id", d.consumer_id)
      + item_bytes("metadata", d.metadata)
      + item_bytes("timestamp", d.timestamp)

\* The sanitizing of _track_inner: method, path, consumer_id and timestamp.
sanitized(d) ==
    [method |-> Str(upper(Take(str_of(d.method), MAX_METHOD_LENGTH))),
     path |-> Str(Take(str_of(d.path), MAX_PATH_LENGTH)),
     consumer_id |-> IF truthy(d.consumer_id)
                     THEN Str(Take(str_of(d.consumer_id), MAX_CONSUMER_ID_LENGTH))
                     ELSE d.consumer_id,
     metadata |-> d.metadata,
     timestamp |-> IF truthy(d.timestamp) THEN d.timestamp
                   ELSE Str(now_isoformat)]

\* _track_inner up to the lock, for an event mapping d: the event it goes
\* on to append, or a drop.
track_inner(d) ==
    LET e == sanitized(d)
        stripped == [e EXCEPT !.metadata = Absent]
    IN  IF json_bytes(e) <= max_event_bytes THEN [drop |-> FALSE, event |-> e]
        ELSE IF json_bytes(stripped) <= max_event_bytes
        THEN [drop |-> FALSE, event |-> stripped]
        ELSE [drop |-> TRUE, event |-> stripped]

\* The event mappings track() is called with.
TrackEvents ==
    [method : {Absent, None, Str(<<103, 101, 116>>), Str(<<71, 69, 84>>),
               Str(Repeat(103, MAX_METHOD_LENGTH + 1)),
               Str(Repeat(223, MAX_METHOD_LENGTH))},
     path : {Absent, Str(<<47, 97>>), Str(Repeat(97, MAX_PATH_LENGTH)),
             Str(Repeat(97, MAX_PATH_LENGTH + 1)), Str(Repeat(233, 500))},
     consumer_id : {None, Str(<<>>), Str(Repeat(120, MAX_CONSUMER_ID_LENGTH)),
                    Str(Repeat(120, MAX_CONSUMER_ID_LENGTH + 1))},
     metadata : {Absent, Mapping(2), Mapping(400)},
     timestamp : {Absent, Str(<<>>), Str(<<84>>)}]

\* A faulty track() without the except clause; TrackNeverRaises must tell it
\* from the real one.
track_reraises(outcome) == outcome = "raise"

\* track(): the try / except Exception around _track_inner; TRUE iff the
\* exception of a "raise" outcome reaches the caller.
track_propagates(outcome) == FALSE

\* A faulty _call_on_error without the except clause; OnErrorOnce must tell
\* it from the real one.
on_error_reraises(raises) == raises

\* _call_on_error: the try / except Exception around the callback; TRUE iff
\* an exception the callback raised reaches _do_flush.
on_error_propagates(raises) == FALSE

\* ----------------------------------------------------------------- flushing
\* A faulty gate that forgets in_flight; SingleFlight must tell it from the
\* real one.
drain_refuses_ignoring_flight == buffer = <<>> \/ now < backoff_until

\* A faulty gate that forgets the backoff deadline; BackoffGate must tell it
\* from the real one.
drain_refuses_ignoring_backoff == buffer = <<>> \/ in_flight

\* _drain_batch returns [] without touching anything.
drain_refuses == buffer = <<>> \/ in_flight \/ now < backoff_until

\* A faulty drain that hands out the whole buffer; FlushOneBatch must tell
\* it from the real one.
drain_batch_whole ==
    IF drain_refuses
    THEN [batch |-> <<>>, buffer |-> buffer, in_flight |-> in_flight]
    ELSE [batch |-> buffer, buffer |-> <<>>, in_flight |-> TRUE]

\* A faulty drain that leaves the drawn events in the buffer; NoDuplication
\* must tell it from the real one.
drain_batch_copying ==
    IF drain_refuses
    THEN [batch |-> <<>>, buffer |-> buffer, in_flight |-> in_flight]
    ELSE [batch |-> Take(buffer, batch_size), buffer |-> buffer,
          in_flight |-> TRUE]

\* _drain_batch: the batch handed out, and the buffer and flag it leaves.
drain_batch ==
    IF drain_refuses
    THEN [batch |-> <<>>, buffer |-> buffer, in_flight |-> in_flight]
    ELSE [batch |-> Take(buffer, batch_size),
          buffer |-> Drop(buffer, batch_size),
          in_flight |-> TRUE]

\* A faulty delay that grows linearly with the failures; BackoffGrows must
\* tell it from the real one.
Delays_linear(failures) ==
    LET full == TicksPerSecond * BASE_BACKOFF_S * failures
    IN {d \in 1..full : 2 * d >= full}

\* BASE_BACKOFF_S * 2 ** (failures - 1) * random.uniform(0.5, 1.0), in ticks.
Delays(failures) ==
    LET full == TicksPerSecond * BASE_BACKOFF_S * Pow2(failures - 1)
    IN {d \in 1..full : 2 * d >= full}

\* A faulty re-insert without the clipping; BoundedMemory must tell it from
\* the real one.
reinsert_unclipped(b, buf) == b \o buf

\* A faulty re-insert behind the buffered events; RetryReinsertsClipped must
\* tell it from the real one.
reinsert_at_back(b, buf) == buf \o Take(b, self_max_buffer_size - Len(buf))

\* reinsert = batch[:space]; self._buffer = reinsert + self._buffer
reinsert(b, buf) == Take(b, self_max_buffer_size - Len(buf)) \o buf

\* A faulty success block that leaves the deadline armed; SuccessResets must
\* tell it from the real one.
success_update_keeping_backoff ==
    [consecutive_failures |-> 0, backoff_until |-> backoff_until,
     in_flight |-> FALSE]

\* A faulty non-retryable block that leaves in_flight as it found it;
\* InFlightReleased must tell it from the real one.
non_retryable_update_holding ==
    [consecutive_failures |-> consecutive_failures,
     backoff_until |-> backoff_until, in_flight |-> in_flight]

\* A faulty non-retryable block that counts the failure; NonRetryableSpills
\* must tell it from the real one.
non_retryable_update_counting ==
    [consecutive_failures |-> consecutive_failures + 1,
     backoff_until |-> backoff_until, in_flight |-> FALSE]

\* A faulty full-buffer branch that evicts the oldest event to make room;
\* FullBufferTrack must tell it from the real one.
track_append_evicting(buf, e) ==
    IF Len(buf) >= self_max_buffer_size
    THEN [buffer |-> Append(Tail(buf), e), wake_set |-> TRUE, size |-> 0]
    ELSE [buffer |-> Append(buf, e), wake_set |-> FALSE, size |-> Len(buf) + 1]

\* The success block of _do_flush: what it leaves in the three fields.
success_update ==
    [consecutive_failures |-> 0, backoff_until |-> 0, in_flight |-> FALSE]

\* The _NonRetryableError block of _do_flush: only in_flight is assigned.
non_retryable_update ==
    [consecutive_failures |-> consecutive_failures,
     backoff_until |-> backoff_until, in_flight |-> FALSE]

\* if failures >= MAX_CONSECUTIVE_FAILURES
reaches_cap(failures) == failures >= MAX_CONSECUTIVE_FAILURES

\* The block of _track_inner under the lock: the buffer it leaves, whether
\* it set wake there, and the size it read after an append (0 without one).
track_append(buf, e) ==
    IF Len(buf) >= self_max_buffer_size
    THEN [buffer |-> buf, wake_set |-> TRUE, size |-> 0]
    ELSE [buffer |-> Append(buf, e), wake_set |-> FALSE, size |-> Len(buf) + 1]

\* Where a thread goes when _do_flush returns: the worker to the head of its
\* loop, flush() to its caller, shutdown() on to the snapshot.
AfterFlush(t) ==
    IF t = Worker THEN (IF done THEN "exit" ELSE "wait")
    ELSE IF ctx[t] = "shutdown" THEN "sd_snap"
    ELSE "idle"

\* No signal is being handled. held is TRUE when the signal arrived while
\* the main thread was inside a block under self._lock; left is the buffer
\* _shutdown_sync returned from without touching it.
NoSignal == [pc |-> "none", remaining |-> <<>>, left |-> <<>>, held |-> FALSE]

\* No validation function has been called.
NoCall == [fn |-> "none", input |-> <<>>, output |-> FALSE]

\* -------------------------------------------------------- several clients
\* The process's handler table for SIGTERM and SIGINT and, for each of
\* MaxClients clients constructed on the main thread, its _shutdown flag and
\* its _original_handlers.
Signals == {"SIGTERM", "SIGINT"}

ChainClients == 1..MaxClients

\* The handler the host installed before any client was constructed.
HostHandler == [kind |-> "host", of |-> 0]

SigDfl == [kind |-> "SIG_DFL", of |-> 0]

\* Client i's bound method _signal_handler.
ClientHandler(i) == [kind |-> "client", of |-> i]

\* An empty _original_handlers.
NoHandlers == [s \in {} |-> SigDfl]

\* state: "none" before construction, "live", "shut" after shutdown(),
\* "synced" after _shutdown_sync only.
NoChain ==
    [installed |-> [s \in Signals |-> HostHandler],
     state |-> [i \in ChainClients |-> "none"],
     original |-> [i \in ChainClients |-> NoHandlers],
     reached |-> "none", signals |-> 0, alive |-> TRUE]

\* self._original_handlers.get(signum, signal.SIG_DFL) of client i
original_get(c, i, s) ==
    IF s \in DOMAIN c.original[i] THEN c.original[i][s] ELSE SigDfl

\* Handler h is called with signal s. The host's handler takes the signal
\* and returns; the default disposition ends the process; a client's
\* _signal_handler runs _shutdown_sync and then calls the handler it has
\* stored, or, with none stored, puts SIG_DFL back and kills the process.
RECURSIVE run_handler(_, _, _)
run_handler(h, s, c) ==
    CASE h.kind = "host" -> [c EXCEPT !.reached = "host"]
      [] h.kind = "SIG_DFL" -> [c EXCEPT !.reached = "killed", !.alive = FALSE]
      [] OTHER ->
           LET i == h.of
               c1 == [c EXCEPT !.state[i] = IF @ = "live" THEN "synced" ELSE @]
               target == original_get(c, i, s)
           IN IF target.kind = "SIG_DFL"
              THEN [c1 EXCEPT !.installed[s] = SigDfl,
                              !.reached = "killed", !.alive = FALSE]
              ELSE run_handler(target, s, c1)

\* -------------------------------------------------------------------- Init
\* A client constructed on the main thread of a process whose SIGTERM and
\* SIGINT handler was prev.
ConstructedWith(prev, size) ==
    /\ \E d \in InitialDisks :
          LET l == load_from_disk(d[1], d[2], TRUE, TRUE)
          IN /\ buffer = l.buffer
             /\ recovering = l.recovering
             /\ spill = l.spill
             /\ recovery_path = l.recovery_path
    /\ in_flight = FALSE
    /\ consecutive_failures = 0
    /\ backoff_until = 0
    /\ shutdown_flag = FALSE
    /\ done = FALSE
    /\ wake = FALSE
    /\ now = 0
    /\ nextId = 1
    /\ pc = [t \in Threads |-> IF t = Worker THEN "wait" ELSE "idle"]
    /\ batch = [t \in Threads |-> <<>>]
    /\ ev = [t \in Threads |-> 0]
    /\ ctx = [t \in Threads |-> IF t = Worker THEN "worker" ELSE "none"]
    /\ err = [t \in Threads |-> "none"]
    /\ snap = [t \in Threads |-> <<0, 0>>]
    /\ trackRaised = FALSE
    /\ self_max_buffer_size = size
    /\ handler_installed = TRUE
    /\ original_handlers = TRUE
    /\ prev_handler = prev
    /\ chain = NoChain
    /\ sig = NoSignal
    /\ forwarded = "none"
    /\ proc = "running"
    /\ worker_started = TRUE
    /\ atexit_hook = FALSE
    /\ hist = [boots |-> 1, loads |-> 1, first |-> buffer,
               replayed |-> Elems(buffer), acked |-> {}, failed |-> FALSE,
               options |-> ValidOptions, delivered |-> <<>>,
               owed |-> {}, escaped |-> FALSE]
    /\ lastTrack = [calls |-> 0, by |-> 0, input |-> TrackInput("none", TRUE, 0, 0)]
    /\ sendIn = Response(200)
    /\ sendOut = "none"
    /\ sendCalls = 0
    /\ sendAttempts = 0
    /\ call = NoCall

\* The client of the specifications below, with max_buffer_size as its
\* option.
Constructed(prev) == ConstructedWith(prev, max_buffer_size)

Init == Constructed("callable")

\* ----------------------------------------------------------------- actions
\* time.monotonic() advances. The code reads the clock only to compare it
\* with backoff_until and to set the next deadline, and while the clock is
\* short of the deadline no send is outstanding or can start, so the clock
\* is followed from deadline to deadline.
Tick ==
    /\ now < backoff_until
    /\ backoff_until <= MaxNow
    /\ now' = backoff_until
    /\ UNCHANGED <<self_max_buffer_size, handlerVars, hostVars, buffer, in_flight, consecutive_failures, backoff_until,
                   shutdown_flag, done, wake, recovery_path, spill, recovering,
                   nextId, pc, batch, ev, ctx, err, snap, trackRaised>>

\* track(e), up to the lock: the _shutdown test, the sanitizing and the size
\* check of _track_inner. An accepted event gets the next event id.
TrackBegin(t, e) ==
    /\ t \in Callers
    /\ pc[t] = "idle"
    /\ IF shutdown_flag
       THEN UNCHANGED <<pc, ev, trackRaised, nextId>>
       ELSE IF sanitize(e) = "raise"
       THEN /\ trackRaised' = (trackRaised \/ track_propagates("raise"))
            /\ UNCHANGED <<pc, ev, nextId>>
       ELSE IF sanitize(e) = "drop"
       THEN UNCHANGED <<pc, ev, trackRaised, nextId>>
       ELSE /\ pc' = [pc EXCEPT ![t] = "t_append"]
            /\ ev' = [ev EXCEPT ![t] = nextId]
            /\ nextId' = nextId + 1
            /\ UNCHANGED trackRaised
    /\ UNCHANGED <<self_max_buffer_size, handlerVars, hostVars, buffer, in_flight, consecutive_failures, backoff_until,
                   shutdown_flag, done, wake, recovery_path, spill, recovering,
                   now, batch, ctx, err, snap>>

\* track(e), the block under the lock; on to the wake-up outside the lock
\* when the size read there has reached batch_size.
TrackAppend(t) ==
    /\ pc[t] = "t_append"
    /\ LET r == track_append(buffer, ev[t])
       IN /\ buffer' = r.buffer
          /\ wake' = (wake \/ r.wake_set)
          /\ pc' = [pc EXCEPT ![t] = IF r.size >= batch_size
                                     THEN "t_wake" ELSE "idle"]
    /\ ev' = [ev EXCEPT ![t] = 0]
    /\ UNCHANGED <<self_max_buffer_size, handlerVars, hostVars, in_flight, consecutive_failures, backoff_until,
                   shutdown_flag, done, recovery_path, spill, recovering,
                   now, nextId, batch, ctx, err, snap, trackRaised>>

\* track(e): if size >= self._batch_size: self._wake.set(); track returns.
TrackWake(t) ==
    /\ pc[t] = "t_wake"
    /\ wake' = TRUE
    /\ pc' = [pc EXCEPT ![t] = "idle"]
    /\ UNCHANGED <<self_max_buffer_size, handlerVars, hostVars, buffer, in_flight, consecutive_failures, backoff_until,
                   shutdown_flag, done, recovery_path, spill, recovering,
                   now, nextId, batch, ev, ctx, err, snap, trackRaised>>

\* Thread t calls _drain_batch for caller c; with a batch it goes on to
\* _send, without one to none.
Drain(t, c, none) ==
    LET r == drain_batch
    IN /\ buffer' = r.buffer
       /\ in_flight' = r.in_flight
       /\ IF r.batch = <<>>
          THEN /\ pc' = [pc EXCEPT ![t] = none]
               /\ UNCHANGED <<batch, snap>>
               /\ ctx' = [ctx EXCEPT ![t] = IF none = "sd_snap" THEN c ELSE ctx[t]]
          ELSE /\ pc' = [pc EXCEPT ![t] = "send"]
               /\ batch' = [batch EXCEPT ![t] = r.batch]
               /\ snap' = [snap EXCEPT ![t] = <<consecutive_failures, backoff_until>>]
               /\ ctx' = [ctx EXCEPT ![t] = c]
       /\ UNCHANGED <<self_max_buffer_size, handlerVars, hostVars,
                      consecutive_failures, backoff_until, shutdown_flag, done,
                      wake, recovery_path, spill, recovering, now, nextId, ev,
                      err, trackRaised>>

\* flush(): draws a batch; returns at once when there is none.
FlushDrain(t) ==
    /\ t \in Callers
    /\ pc[t] = "idle"
    /\ Drain(t, "flush", "idle")

\* _run: the timed wait returns (wake set, or the timeout), wake is cleared,
\* and the loop breaks when _done is set.
WorkerWake ==
    /\ pc[Worker] = "wait"
    /\ wake' = FALSE
    /\ pc' = [pc EXCEPT ![Worker] = IF done THEN "exit" ELSE "w_drain"]
    /\ UNCHANGED <<self_max_buffer_size, handlerVars, hostVars, buffer, in_flight, consecutive_failures, backoff_until,
                   shutdown_flag, done, recovery_path, spill, recovering,
                   now, nextId, batch, ev, ctx, err, snap, trackRaised>>

\* _run: batch = self._drain_batch(); without a batch, back to the loop head.
WorkerDrain ==
    /\ pc[Worker] = "w_drain"
    /\ Drain(Worker, "worker", IF done THEN "exit" ELSE "wait")

\* _do_flush, _send returned: the success block under the lock.
DoFlushOk(t) ==
    /\ pc[t] = "send"
    /\ \E r \in ClientResults : do_flush_branch(send(r).raised) = "ok"
    /\ consecutive_failures' = success_update.consecutive_failures
    /\ backoff_until' = success_update.backoff_until
    /\ in_flight' = success_update.in_flight
    /\ pc' = [pc EXCEPT ![t] = "cleanup"]
    /\ UNCHANGED <<self_max_buffer_size, handlerVars, hostVars, buffer, shutdown_flag, done, wake, recovery_path, spill,
                   recovering, now, nextId, batch, ev, ctx, err, snap,
                   trackRaised>>

\* _cleanup_recovery_file, after the lock is released; _do_flush returns.
CleanupRecovery(t) ==
    /\ pc[t] = "cleanup"
    /\ recovering' = IF recovery_path THEN NoFile ELSE recovering
    /\ recovery_path' = FALSE
    /\ pc' = [pc EXCEPT ![t] = AfterFlush(t)]
    /\ batch' = [batch EXCEPT ![t] = <<>>]
    /\ snap' = [snap EXCEPT ![t] = <<0, 0>>]
    /\ ctx' = [ctx EXCEPT ![t] = IF t = Worker THEN "worker"
                                 ELSE IF ctx[t] = "shutdown" THEN "shutdown"
                                 ELSE "none"]
    /\ UNCHANGED <<self_max_buffer_size, handlerVars, hostVars, buffer, in_flight, consecutive_failures, backoff_until,
                   shutdown_flag, done, wake, spill, now, nextId, ev, err,
                   trackRaised>>

\* _do_flush, _send raised _NonRetryableError: the block under the lock.
DoFlushNonRetryable(t) ==
    /\ pc[t] = "send"
    /\ \E r \in ClientResults : do_flush_branch(send(r).raised) = "non_retryable"
    /\ consecutive_failures' = non_retryable_update.consecutive_failures
    /\ backoff_until' = non_retryable_update.backoff_until
    /\ in_flight' = non_retryable_update.in_flight
    /\ pc' = [pc EXCEPT ![t] = "persist"]
    /\ err' = [err EXCEPT ![t] = "non_retryable"]
    /\ UNCHANGED <<self_max_buffer_size, handlerVars, hostVars, buffer, shutdown_flag, done, wake, recovery_path, spill,
                   recovering, now, nextId, batch, ev, ctx, snap, trackRaised>>

\* _do_flush, non-retryable: self._persist_to_disk(batch), lock released.
\* The size check; a full file ends the call.
PersistCheck(t) ==
    /\ pc[t] = "persist"
    /\ pc' = [pc EXCEPT ![t] = IF StorageHasRoom(spill)
                               THEN "persist_w" ELSE "on_error"]
    /\ UNCHANGED <<self_max_buffer_size, handlerVars, hostVars, buffer, in_flight, consecutive_failures, backoff_until,
                   shutdown_flag, done, wake, recovery_path, spill, recovering,
                   now, nextId, batch, ev, ctx, err, snap, trackRaised>>

\* _do_flush, non-retryable: the write of _persist_to_disk(batch). Other
\* threads may have written since the size check.
PersistWrite(t, writeOk) ==
    /\ pc[t] = "persist_w"
    /\ spill' = write_line(spill, batch[t], writeOk)
    /\ pc' = [pc EXCEPT ![t] = "on_error"]
    /\ UNCHANGED <<self_max_buffer_size, handlerVars, hostVars, buffer, in_flight, consecutive_failures, backoff_until,
                   shutdown_flag, done, wake, recovery_path, recovering, now,
                   nextId, batch, ev, ctx, err, snap, trackRaised>>

\* _do_flush, any other exception, failures below MAX_CONSECUTIVE_FAILURES:
\* the re-insert and the backoff, under the lock.
DoFlushRetry(t, delay) ==
    /\ pc[t] = "send"
    /\ \E r \in ClientResults : do_flush_branch(send(r).raised) = "retryable"
    /\ LET failures == consecutive_failures + 1
       IN /\ ~reaches_cap(failures)
          /\ delay \in Delays(failures)
          /\ now + delay <= MaxNow
          /\ consecutive_failures' = failures
          /\ buffer' = reinsert(batch[t], buffer)
          /\ backoff_until' = now + delay
    /\ in_flight' = FALSE
    /\ pc' = [pc EXCEPT ![t] = "on_error"]
    /\ err' = [err EXCEPT ![t] = "retryable"]
    /\ UNCHANGED <<self_max_buffer_size, handlerVars, hostVars, shutdown_flag, done, wake, recovery_path, spill, recovering,
                   now, nextId, batch, ev, ctx, snap, trackRaised>>

\* _do_flush, any other exception, failures at MAX_CONSECUTIVE_FAILURES: the
\* counter reset and _persist_to_disk(batch), all under the lock. The size
\* check and the write are taken as one step here; a write another thread
\* makes between them is the same file as one made just before the check by
\* a thread that had checked earlier.
DoFlushCap(t, writeOk) ==
    /\ pc[t] = "send"
    /\ \E r \in ClientResults : do_flush_branch(send(r).raised) = "retryable"
    /\ reaches_cap(consecutive_failures + 1)
    /\ consecutive_failures' = 0
    /\ in_flight' = FALSE
    /\ spill' = persist_to_disk(spill, batch[t], writeOk)
    /\ pc' = [pc EXCEPT ![t] = "on_error"]
    /\ err' = [err EXCEPT ![t] = "retryable"]
    /\ UNCHANGED <<self_max_buffer_size, handlerVars, hostVars, buffer, backoff_until, shutdown_flag, done, wake,
                   recovery_path, recovering, now, nextId, batch, ev, ctx,
                   snap, trackRaised>>

\* _call_on_error(exc); _do_flush returns.
OnError(t) ==
    /\ pc[t] = "on_error"
    /\ pc' = [pc EXCEPT ![t] = AfterFlush(t)]
    /\ batch' = [batch EXCEPT ![t] = <<>>]
    /\ err' = [err EXCEPT ![t] = "none"]
    /\ snap' = [snap EXCEPT ![t] = <<0, 0>>]
    /\ ctx' = [ctx EXCEPT ![t] = IF t = Worker THEN "worker"
                                 ELSE IF ctx[t] = "shutdown" THEN "shutdown"
                                 ELSE "none"]
    /\ UNCHANGED <<self_max_buffer_size, handlerVars, hostVars, buffer, in_flight, consecutive_failures, backoff_until,
                   shutdown_flag, done, wake, recovery_path, spill, recovering,
                   now, nextId, ev, trackRaised>>

\* shutdown(): the test of self._shutdown.
ShutdownCheck(t) ==
    /\ t \in Callers
    /\ pc[t] = "idle"
    /\ ~shutdown_flag
    /\ pc' = [pc EXCEPT ![t] = "sd_set"]
    /\ UNCHANGED <<self_max_buffer_size, handlerVars, hostVars, buffer, in_flight, consecutive_failures, backoff_until,
                   shutdown_flag, done, wake, recovery_path, spill, recovering,
                   now, nextId, batch, ev, ctx, err, snap, trackRaised>>

\* shutdown(): self._shutdown = True; the previous handlers are put back
\* (signal.signal raises ValueError off the main thread and the handler
\* stays) and self._original_handlers is cleared; self._done.set(),
\* self._wake.set().
ShutdownSet(t) ==
    /\ pc[t] = "sd_set"
    /\ shutdown_flag' = TRUE
    /\ handler_installed' = (handler_installed /\ t # Main)
    /\ original_handlers' = FALSE
    /\ done' = TRUE
    /\ wake' = TRUE
    /\ pc' = [pc EXCEPT ![t] = "sd_join"]
    /\ UNCHANGED <<self_max_buffer_size, hostVars, buffer, in_flight,
                   consecutive_failures, backoff_until,
                   recovery_path, spill, recovering, now, nextId, batch, ev,
                   ctx, err, snap, trackRaised>>

\* shutdown(): the join has returned (the worker left, or the 5 s ran out)
\* and the final self.flush() draws its batch.
ShutdownFlush(t) ==
    /\ pc[t] = "sd_join"
    /\ Drain(t, "shutdown", "sd_snap")

\* shutdown(): remaining = list(self._buffer); self._buffer.clear(), under
\* the lock; returns when nothing remains.
ShutdownSnap(t) ==
    /\ pc[t] = "sd_snap"
    /\ buffer' = <<>>
    /\ batch' = [batch EXCEPT ![t] = buffer]
    /\ pc' = [pc EXCEPT ![t] = IF buffer = <<>> THEN "idle" ELSE "sd_persist"]
    /\ ctx' = [ctx EXCEPT ![t] = IF buffer = <<>> THEN "none" ELSE "shutdown"]
    /\ UNCHANGED <<self_max_buffer_size, handlerVars, hostVars, in_flight, consecutive_failures, backoff_until,
                   shutdown_flag, done, wake, recovery_path, spill, recovering,
                   now, nextId, ev, err, snap, trackRaised>>

\* shutdown(): self._persist_to_disk(remaining), the size check; a full
\* file ends the call and shutdown returns.
ShutdownPersistCheck(t) ==
    /\ pc[t] = "sd_persist"
    /\ IF StorageHasRoom(spill)
       THEN /\ pc' = [pc EXCEPT ![t] = "sd_persist_w"]
            /\ UNCHANGED <<batch, ctx>>
       ELSE /\ pc' = [pc EXCEPT ![t] = "idle"]
            /\ batch' = [batch EXCEPT ![t] = <<>>]
            /\ ctx' = [ctx EXCEPT ![t] = "none"]
    /\ UNCHANGED <<self_max_buffer_size, handlerVars, hostVars, buffer, in_flight, consecutive_failures, backoff_until,
                   shutdown_flag, done, wake, recovery_path, spill, recovering,
                   now, nextId, ev, err, snap, trackRaised>>

\* shutdown(): the write of _persist_to_disk(remaining); shutdown returns.
ShutdownPersistWrite(t, writeOk) ==
    /\ pc[t] = "sd_persist_w"
    /\ spill' = write_line(spill, batch[t], writeOk)
    /\ pc' = [pc EXCEPT ![t] = "idle"]
    /\ batch' = [batch EXCEPT ![t] = <<>>]
    /\ ctx' = [ctx EXCEPT ![t] = "none"]
    /\ UNCHANGED <<self_max_buffer_size, handlerVars, hostVars, buffer, in_flight, consecutive_failures, backoff_until,
                   shutdown_flag, done, wake, recovery_path, recovering, now,
                   nextId, ev, err, snap, trackRaised>>

\* ------------------------------------------------------------ the client
\* random.uniform(0.5, 1.0) as Spec draws it: the shortest delay of
\* Delays(failures), so that every failure count is reached by MaxNow.
ShortestDelay(failures) ==
    CHOOSE d \in Delays(failures) : \A d2 \in Delays(failures) : d <= d2

\* Spec leaves the variables of TrackSpec and SendSpec alone.
Idle == UNCHANGED <<hist, lastTrack, sendVars, call>>

Next ==
    \/ Tick /\ Idle
    \/ \E t \in Callers, e \in TrackInputs :
          nextId <= MaxTrack /\ TrackBegin(t, e) /\ Idle
    \/ \E t \in Callers : TrackAppend(t) /\ Idle
    \/ \E t \in Callers : TrackWake(t) /\ Idle
    \/ \E t \in Callers : FlushDrain(t) /\ Idle
    \/ WorkerWake /\ Idle
    \/ WorkerDrain /\ Idle
    \/ \E t \in Threads : DoFlushOk(t) /\ Idle
    \/ \E t \in Threads : CleanupRecovery(t) /\ Idle
    \/ \E t \in Threads : DoFlushNonRetryable(t) /\ Idle
    \/ \E t \in Threads : PersistCheck(t) /\ Idle
    \/ \E t \in Threads, w \in BOOLEAN : PersistWrite(t, w) /\ Idle
    \/ \E t \in Threads :
          DoFlushRetry(t, ShortestDelay(consecutive_failures + 1)) /\ Idle
    \/ \E t \in Threads, w \in BOOLEAN : DoFlushCap(t, w) /\ Idle
    \/ \E t \in Threads : OnError(t) /\ Idle
    \/ \E t \in Callers : ShutdownCheck(t) /\ Idle
    \/ \E t \in Callers : ShutdownSet(t) /\ Idle
    \/ \E t \in Callers : ShutdownFlush(t) /\ Idle
    \/ \E t \in Callers : ShutdownSnap(t) /\ Idle
    \/ \E t \in Callers : ShutdownPersistCheck(t) /\ Idle
    \/ \E t \in Callers, w \in BOOLEAN : ShutdownPersistWrite(t, w) /\ Idle

Spec == Init /\ [][Next]_vars

\* ------------------------------------------------- the producer path alone
\* One call of track(e) by thread t, counted and remembered.
TrackCall(t, e) ==
    /\ lastTrack.calls < MaxTrackCalls
    /\ TrackBegin(t, e)
    /\ lastTrack' = [calls |-> lastTrack.calls + 1, by |-> t, input |-> e]
    /\ UNCHANGED <<hist, sendVars, call>>

\* Callers of track() and shutdown() on a client that sends nothing.
TrackNext ==
    \/ \E t \in Callers, e \in TrackInputs : TrackCall(t, e)
    \/ \E t \in Callers : TrackAppend(t) /\ Idle
    \/ \E t \in Callers : TrackWake(t) /\ Idle
    \/ \E t \in Callers : ShutdownCheck(t) /\ Idle
    \/ \E t \in Callers : ShutdownSet(t) /\ Idle

TrackSpec == Init /\ [][TrackNext]_vars

\* ------------------------------------------------------- the sender alone
\* One call of _send whose urlopen produced r, and the branch of _do_flush
\* that handles what _send raised.
SendCall(r) ==
    /\ sendCalls < MaxSendCalls
    /\ sendIn' = r
    /\ sendOut' = do_flush_branch(send(r).raised)
    /\ sendCalls' = sendCalls + 1
    /\ sendAttempts' = sendAttempts + send(r).attempts
    /\ UNCHANGED <<clientVars, handlerVars, hostVars, hist, lastTrack, call>>

SendNext == \E r \in UrlopenResults : SendCall(r)

SendSpec == Init /\ [][SendNext]_vars

\* ------------------------------------------------- one flusher on the clock
\* time.monotonic() advances by one tick.
TickUnit ==
    /\ now < MaxNow
    /\ now' = now + 1
    /\ UNCHANGED <<self_max_buffer_size, handlerVars, hostVars,
                   buffer, in_flight, consecutive_failures, backoff_until,
                   shutdown_flag, done, wake, recovery_path, spill, recovering,
                   nextId, pc, batch, ev, ctx, err, snap, trackRaised>>

\* The delays a backoff can draw, over every failure count below the cap.
AllDelays == UNION {Delays(k) : k \in 1..(MAX_CONSECUTIVE_FAILURES - 1)}

\* The main thread alone calls track() and flush(); the clock runs tick by
\* tick and random.uniform draws every delay of Delays.
TimedNext ==
    \/ TickUnit /\ Idle
    \/ nextId <= MaxTrack /\ TrackBegin(Main, TrackInput("mapping", TRUE, 1, 0))
          /\ Idle
    \/ TrackAppend(Main) /\ Idle
    \/ TrackWake(Main) /\ Idle
    \/ FlushDrain(Main) /\ Idle
    \/ DoFlushOk(Main) /\ Idle
    \/ CleanupRecovery(Main) /\ Idle
    \/ DoFlushNonRetryable(Main) /\ Idle
    \/ PersistCheck(Main) /\ Idle
    \/ \E w \in BOOLEAN : PersistWrite(Main, w) /\ Idle
    \/ \E d \in AllDelays : DoFlushRetry(Main, d) /\ Idle
    \/ \E w \in BOOLEAN : DoFlushCap(Main, w) /\ Idle
    \/ OnError(Main) /\ Idle

TimedSpec == Init /\ [][TimedNext]_vars

\* -------------------------------------------------- spills without a clock
\* Callers of track(), flush() and shutdown() and the worker on a client
\* whose every send is refused for good, so that every batch is spilled.
DiskNext ==
    \/ \E t \in Callers :
          nextId <= MaxDiskTrack
          /\ TrackBegin(t, TrackInput("mapping", TRUE, 1, 0)) /\ Idle
    \/ \E t \in Callers : TrackAppend(t) /\ Idle
    \/ \E t \in Callers : TrackWake(t) /\ Idle
    \/ \E t \in Callers : FlushDrain(t) /\ Idle
    \/ WorkerWake /\ Idle
    \/ WorkerDrain /\ Idle
    \/ \E t \in Threads : DoFlushNonRetryable(t) /\ Idle
    \/ \E t \in Threads : PersistCheck(t) /\ Idle
    \/ \E t \in Threads, w \in BOOLEAN : PersistWrite(t, w) /\ Idle
    \/ \E t \in Threads : OnError(t) /\ Idle
    \/ \E t \in Callers : ShutdownCheck(t) /\ Idle
    \/ \E t \in Callers : ShutdownSet(t) /\ Idle
    \/ \E t \in Callers : ShutdownFlush(t) /\ Idle
    \/ \E t \in Callers : ShutdownSnap(t) /\ Idle
    \/ \E t \in Callers : ShutdownPersistCheck(t) /\ Idle
    \/ \E t \in Callers, w \in BOOLEAN : ShutdownPersistWrite(t, w) /\ Idle

DiskSpec == Init /\ [][DiskNext]_vars


\* ------------------------------------------------ construction and restart
\* The state a process holds before its first client and after its end.
NoClient ==
    /\ buffer' = <<>>
    /\ in_flight' = FALSE
    /\ consecutive_failures' = 0
    /\ backoff_until' = 0
    /\ shutdown_flag' = FALSE
    /\ done' = FALSE
    /\ wake' = FALSE
    /\ recovery_path' = FALSE
    /\ now' = 0
    /\ pc' = [t \in Threads |-> IF t = Worker THEN "exit" ELSE "idle"]
    /\ batch' = [t \in Threads |-> <<>>]
    /\ ev' = [t \in Threads |-> 0]
    /\ ctx' = [t \in Threads |-> IF t = Worker THEN "worker" ELSE "none"]
    /\ err' = [t \in Threads |-> "none"]
    /\ snap' = [t \in Threads |-> <<0, 0>>]
    /\ handler_installed' = FALSE
    /\ original_handlers' = FALSE
    /\ worker_started' = FALSE
    /\ atexit_hook' = FALSE
    /\ sig' = NoSignal
    /\ forwarded' = "none"

\* A process that has not constructed a client, over what a previous
\* process left on disk.
RecInit ==
    /\ \E d \in InitialDisks : recovering = d[1] /\ spill = d[2]
    /\ buffer = <<>>
    /\ in_flight = FALSE
    /\ consecutive_failures = 0
    /\ backoff_until = 0
    /\ shutdown_flag = FALSE
    /\ done = FALSE
    /\ wake = FALSE
    /\ recovery_path = FALSE
    /\ now = 0
    /\ nextId = 1
    /\ pc = [t \in Threads |-> IF t = Worker THEN "exit" ELSE "idle"]
    /\ batch = [t \in Threads |-> <<>>]
    /\ ev = [t \in Threads |-> 0]
    /\ ctx = [t \in Threads |-> IF t = Worker THEN "worker" ELSE "none"]
    /\ err = [t \in Threads |-> "none"]
    /\ snap = [t \in Threads |-> <<0, 0>>]
    /\ trackRaised = FALSE
    /\ self_max_buffer_size = max_buffer_size
    /\ handler_installed = FALSE
    /\ original_handlers = FALSE
    /\ prev_handler = "callable"
    /\ chain = NoChain
    /\ sig = NoSignal
    /\ forwarded = "none"
    /\ proc = "none"
    /\ worker_started = FALSE
    /\ atexit_hook = FALSE
    /\ hist = [boots |-> 0, loads |-> 0, first |-> <<>>, replayed |-> {},
               acked |-> {}, failed |-> FALSE, options |-> ValidOptions,
               delivered |-> <<>>, owed |-> {}, escaped |-> FALSE]
    /\ lastTrack = [calls |-> 0, by |-> 0, input |-> TrackInput("none", TRUE, 0, 0)]
    /\ sendIn = Response(200)
    /\ sendOut = "none"
    /\ sendCalls = 0
    /\ sendAttempts = 0
    /\ call = NoCall

\* ApiDashClient(o) in a process without a client. The validation raises
\* before anything else runs; otherwise the state is set up, _load_from_disk
\* runs, the worker is started, and the signal handlers are installed when
\* the call is made on the main thread, the atexit hook when it is not.
Construct(o, renameOk, unlinkOk, onMain) ==
    /\ proc \in {"none", "failed", "dead"}
    /\ hist.boots < MaxBoots
    /\ IF config_error(o)
       THEN /\ proc' = "failed"
            /\ hist' = [hist EXCEPT !.options = o]
            /\ UNCHANGED <<clientVars, handlerVars, prev_handler, chain, sig,
                           forwarded, worker_started, atexit_hook>>
       ELSE LET l == load_from_disk(recovering, spill, renameOk, unlinkOk)
            IN /\ buffer' = l.buffer
               /\ recovering' = l.recovering
               /\ spill' = l.spill
               /\ recovery_path' = l.recovery_path
               /\ in_flight' = FALSE
               /\ consecutive_failures' = 0
               /\ backoff_until' = 0
               /\ shutdown_flag' = FALSE
               /\ done' = FALSE
               /\ wake' = FALSE
               /\ now' = 0
               /\ pc' = [t \in Threads |-> IF t = Worker THEN "wait" ELSE "idle"]
               /\ batch' = [t \in Threads |-> <<>>]
               /\ ev' = [t \in Threads |-> 0]
               /\ ctx' = [t \in Threads |-> IF t = Worker THEN "worker" ELSE "none"]
               /\ err' = [t \in Threads |-> "none"]
               /\ snap' = [t \in Threads |-> <<0, 0>>]
               /\ self_max_buffer_size' = max_buffer_size
               /\ worker_started' = TRUE
               /\ handler_installed' = onMain
               /\ original_handlers' = onMain
               /\ atexit_hook' = ~onMain
               /\ proc' = "running"
               /\ hist' = [boots |-> hist.boots + 1,
                           loads |-> hist.loads + 1,
                           first |-> IF hist.boots = 0 THEN l.buffer ELSE hist.first,
                           replayed |-> Elems(l.buffer),
                           acked |-> hist.acked,
                           failed |-> FALSE,
                           options |-> o,
                           delivered |-> hist.delivered,
                           owed |-> {},
                           escaped |-> hist.escaped]
               /\ UNCHANGED <<nextId, trackRaised, prev_handler, chain, sig,
                              forwarded>>
    /\ UNCHANGED <<lastTrack, sendVars, call>>

\* The process dies: its memory and its threads are gone, the files stay.
Crash ==
    /\ proc = "running"
    /\ proc' = "dead"
    /\ NoClient
    /\ UNCHANGED <<spill, recovering, nextId, trackRaised, self_max_buffer_size,
                   prev_handler, chain, hist, lastTrack, sendVars, call>>

\* A step of the running client that leaves the history as it is.
Running(A) == proc = "running" /\ A /\ Idle

\* A successful send adds its batch to the acknowledged events.
AckedSend(t) ==
    /\ proc = "running"
    /\ DoFlushOk(t)
    /\ hist' = [hist EXCEPT !.acked = @ \cup Elems(batch[t])]
    /\ UNCHANGED <<lastTrack, sendVars, call>>

\* A failed send is remembered until the next construction.
FailedSend(A) ==
    /\ proc = "running"
    /\ A
    /\ hist' = [hist EXCEPT !.failed = TRUE]
    /\ UNCHANGED <<lastTrack, sendVars, call>>

\* Processes that construct a client, use it from one thread beside its
\* worker, and die at any point.
RecoveryNext ==
    \/ \E o \in OptionsSet, r \in BOOLEAN, u \in BOOLEAN, m \in BOOLEAN :
          Construct(o, r, u, m)
    \/ Crash
    \/ Running(Tick)
    \/ nextId <= MaxTrack
          /\ Running(TrackBegin(Main, TrackInput("mapping", TRUE, 1, 0)))
    \/ Running(TrackAppend(Main))
    \/ Running(TrackWake(Main))
    \/ Running(FlushDrain(Main))
    \/ Running(WorkerWake)
    \/ Running(WorkerDrain)
    \/ \E t \in {Worker, Main} : AckedSend(t)
    \/ \E t \in {Worker, Main} : Running(CleanupRecovery(t))
    \/ \E t \in {Worker, Main} : FailedSend(DoFlushNonRetryable(t))
    \/ \E t \in {Worker, Main} : Running(PersistCheck(t))
    \/ \E t \in {Worker, Main}, w \in BOOLEAN : Running(PersistWrite(t, w))
    \/ \E t \in {Worker, Main} :
          FailedSend(DoFlushRetry(t, ShortestDelay(consecutive_failures + 1)))
    \/ \E t \in {Worker, Main} : Running(OnError(t))

RecoverySpec == RecInit /\ [][RecoveryNext]_vars

\* ------------------------------------------------------------- the signal
\* What signal.signal returned for the handler installed before the client.
PrevHandlers == {"callable", "SIG_DFL", "SIG_IGN"}

\* The main thread is at the head of a block that runs under self._lock.
AtLock(t) == pc[t] \in {"t_append", "send", "sd_join", "sd_snap"}

\* What the handler's steps leave alone.
SigFrame ==
    UNCHANGED <<in_flight, consecutive_failures, backoff_until, recovery_path,
                recovering, now, nextId, pc, batch, ev, ctx, err, snap,
                trackRaised, self_max_buffer_size, original_handlers,
                prev_handler, chain, worker_started, atexit_hook>>

\* SIGTERM or SIGINT is delivered while _signal_handler is installed: the
\* main thread is interrupted and runs the handler. held says that it was
\* interrupted inside a block under self._lock.
SigArrive(held) ==
    /\ proc = "running"
    /\ handler_installed
    /\ sig.pc = "none"
    /\ forwarded = "none"
    /\ held => AtLock(Main)
    /\ sig' = [NoSignal EXCEPT !.pc = "check", !.held = held]
    /\ SigFrame
    /\ UNCHANGED <<buffer, shutdown_flag, done, wake, spill,
                   handler_installed, forwarded, proc>>

\* _shutdown_sync: the test of self._shutdown; when it is set the handler
\* goes straight on to forwarding.
SigCheck ==
    /\ proc = "running"
    /\ sig.pc = "check"
    /\ sig' = IF shutdown_flag
              THEN [sig EXCEPT !.pc = "forward", !.left = buffer]
              ELSE [sig EXCEPT !.pc = "set"]
    /\ SigFrame
    /\ UNCHANGED <<buffer, shutdown_flag, done, wake, spill,
                   handler_installed, forwarded, proc>>

\* _shutdown_sync: self._shutdown = True; self._done.set(); self._wake.set()
SigSet ==
    /\ proc = "running"
    /\ sig.pc = "set"
    /\ shutdown_flag' = TRUE
    /\ done' = TRUE
    /\ wake' = TRUE
    /\ sig' = [sig EXCEPT !.pc = "snap"]
    /\ SigFrame
    /\ UNCHANGED <<buffer, spill, handler_installed, forwarded, proc>>

\* _shutdown_sync: remaining = list(self._buffer); self._buffer.clear(),
\* under the lock, which never comes free when the interrupted main thread
\* holds it.
SigSnap ==
    /\ proc = "running"
    /\ sig.pc = "snap"
    /\ ~sig.held
    /\ buffer' = <<>>
    /\ sig' = [sig EXCEPT !.pc = IF buffer = <<>> THEN "forward" ELSE "persist",
                           !.remaining = buffer]
    /\ SigFrame
    /\ UNCHANGED <<shutdown_flag, done, wake, spill, handler_installed,
                   forwarded, proc>>

\* _shutdown_sync: _persist_to_disk(remaining), the size check.
SigPersistCheck ==
    /\ proc = "running"
    /\ sig.pc = "persist"
    /\ sig' = [sig EXCEPT !.pc = IF StorageHasRoom(spill)
                                 THEN "persist_w" ELSE "forward"]
    /\ SigFrame
    /\ UNCHANGED <<buffer, shutdown_flag, done, wake, spill,
                   handler_installed, forwarded, proc>>

\* _shutdown_sync: _persist_to_disk(remaining), the write.
SigPersistWrite(writeOk) ==
    /\ proc = "running"
    /\ sig.pc = "persist_w"
    /\ spill' = write_line(spill, sig.remaining, writeOk)
    /\ sig' = [sig EXCEPT !.pc = "forward"]
    /\ SigFrame
    /\ UNCHANGED <<buffer, shutdown_flag, done, wake, handler_installed,
                   forwarded, proc>>

\* self._original_handlers.get(signum, signal.SIG_DFL)
forward_target == IF original_handlers THEN prev_handler ELSE "SIG_DFL"

\* _signal_handler, after _shutdown_sync: a callable handler is called and
\* the main thread resumes; under SIG_DFL the default disposition is put
\* back and os.kill ends the process; anything else is left alone.
SigForward ==
    /\ proc = "running"
    /\ sig.pc = "forward"
    /\ forwarded' = CASE forward_target = "callable" -> "called"
                       [] forward_target = "SIG_DFL" -> "killed"
                       [] OTHER -> "nothing"
    /\ handler_installed' = (handler_installed /\ forward_target # "SIG_DFL")
    /\ proc' = IF forward_target = "SIG_DFL" THEN "dead" ELSE proc
    /\ sig' = [sig EXCEPT !.pc = "none"]
    /\ SigFrame
    /\ UNCHANGED <<buffer, shutdown_flag, done, wake, spill>>

\* A step of thread t of the running process; the main thread stands still
\* while the handler runs on it.
Step(t, A) ==
    /\ proc = "running"
    /\ t = Main => sig.pc = "none"
    /\ A
    /\ Idle

\* self._lock is free: it is held for good once the handler has interrupted
\* the main thread inside a block under the lock.
LockFree == ~(sig.pc # "none" /\ sig.held)

\* A step of thread t that enters a with self._lock block.
Locked(t, A) == LockFree /\ Step(t, A)

SigInit == \E h \in PrevHandlers : Constructed(h)

\* Producers, flush(), shutdown() and the worker on a client whose sends are
\* answered 200 or refused for good, with one signal delivered at any point.
SignalNext ==
    \/ \E h \in BOOLEAN : SigArrive(h) /\ Idle
    \/ SigCheck /\ Idle
    \/ SigSet /\ Idle
    \/ SigSnap /\ Idle
    \/ SigPersistCheck /\ Idle
    \/ \E w \in BOOLEAN : SigPersistWrite(w) /\ Idle
    \/ SigForward /\ Idle
    \/ \E t \in Callers :
          nextId <= MaxTrack
          /\ Step(t, TrackBegin(t, TrackInput("mapping", TRUE, 1, 0)))
    \/ \E t \in Callers : Locked(t, TrackAppend(t))
    \/ \E t \in Callers : Step(t, TrackWake(t))
    \/ \E t \in Callers : Locked(t, FlushDrain(t))
    \/ Step(Worker, WorkerWake)
    \/ Locked(Worker, WorkerDrain)
    \/ \E t \in Threads : Locked(t, DoFlushOk(t))
    \/ \E t \in Threads : Step(t, CleanupRecovery(t))
    \/ \E t \in Threads : Locked(t, DoFlushNonRetryable(t))
    \/ \E t \in Threads : Step(t, PersistCheck(t))
    \/ \E t \in Threads, w \in BOOLEAN : Step(t, PersistWrite(t, w))
    \/ \E t \in Threads : Step(t, OnError(t))
    \/ \E t \in Callers : Step(t, ShutdownCheck(t))
    \/ \E t \in Callers : Step(t, ShutdownSet(t))
    \/ \E t \in Callers : Locked(t, ShutdownFlush(t))
    \/ \E t \in Callers : Locked(t, ShutdownSnap(t))
    \/ \E t \in Callers : Step(t, ShutdownPersistCheck(t))
    \/ \E t \in Callers, w \in BOOLEAN : Step(t, ShutdownPersistWrite(t, w))

SignalSpec == SigInit /\ [][SignalNext]_vars

\* The steps of the worker thread in SignalNext.
WorkerStep ==
    \/ Step(Worker, WorkerWake)
    \/ Locked(Worker, WorkerDrain)
    \/ Locked(Worker, DoFlushOk(Worker))
    \/ Step(Worker, CleanupRecovery(Worker))
    \/ Locked(Worker, DoFlushNonRetryable(Worker))
    \/ Step(Worker, PersistCheck(Worker))
    \/ \E w \in BOOLEAN : Step(Worker, PersistWrite(Worker, w))
    \/ Step(Worker, OnError(Worker))

\* The steps of _signal_handler once it has been entered.
HandlerStep ==
    \/ SigCheck /\ Idle
    \/ SigSet /\ Idle
    \/ SigSnap /\ Idle
    \/ SigPersistCheck /\ Idle
    \/ \E w \in BOOLEAN : SigPersistWrite(w) /\ Idle
    \/ SigForward /\ Idle

\* The worker thread is scheduled as long as it can take a step (its timed
\* wait expires, its send returns, a lock that comes free is acquired), and
\* so is the main thread while it runs the handler.
HaltSpec == SignalSpec /\ WF_vars(WorkerStep) /\ WF_vars(HandlerStep)

\* ----------------------------------------------------- validation alone
\* Each behaviour of ValidateSpec makes one call of one validation function.
\* The URLs validate_endpoint is called with.
Urls ==
    {Endpoint(TRUE, "", NoHost, "absent", "absent")}
    \cup {Endpoint(FALSE, sc, h, u, pw) :
             sc \in {"", "http", "https", "ftp"}, h \in Hosts \cup {NoHost},
             u \in {"absent", "", "user"}, pw \in {"absent", "pw"}}

\* The code points api keys are made of: C0 controls, printable ASCII, DEL,
\* C1 controls and a Latin-1 character.
KeyChars == {0, 10, 31, 32, 107, 126, 127, 128, 133, 159, 160}

\* The api keys the constructor is called with, of up to two characters.
Keys ==
    {<<>>} \cup {<<c>> : c \in KeyChars}
           \cup {<<c, d>> : c \in KeyChars, d \in KeyChars}

\* The constructor validates options with api key k and a good endpoint;
\* the output is whether it raised ValueError.
InitCheckCall(k) ==
    /\ call = NoCall
    /\ call' = [fn |-> "__init__", input |-> k,
                output |-> config_error([api_key |-> k,
                                         endpoint |-> ValidOptions.endpoint])]
    /\ UNCHANGED <<clientVars, handlerVars, hostVars, hist, lastTrack, sendVars>>

\* is_private_ip(h) is called.
IsPrivateIpCall(h) ==
    /\ call = NoCall
    /\ call' = [fn |-> "is_private_ip", input |-> h, output |-> is_private_ip(h)]
    /\ UNCHANGED <<clientVars, handlerVars, hostVars, hist, lastTrack, sendVars>>

\* validate_endpoint(ep) is called.
ValidateEndpointCall(ep) ==
    /\ call = NoCall
    /\ call' = [fn |-> "validate_endpoint", input |-> ep,
                output |-> validate_endpoint(ep)]
    /\ UNCHANGED <<clientVars, handlerVars, hostVars, hist, lastTrack, sendVars>>

ValidateNext ==
    \/ \E h \in Hosts : IsPrivateIpCall(h)
    \/ \E ep \in Urls : ValidateEndpointCall(ep)
    \/ \E k \in Keys : InitCheckCall(k)

ValidateSpec == Init /\ [][ValidateNext]_vars

\* --------------------------------------------------- the sanitizing alone
\* The first call of track(d), by the main thread, from the _shutdown test
\* to the block under the lock; call records the event handed to the buffer.
TrackInnerCall(d) ==
    /\ call = NoCall
    /\ ~shutdown_flag
    /\ LET r == track_inner(d)
           a == track_append(buffer, nextId)
       IN  IF r.drop
           THEN /\ call' = [fn |-> "_track_inner", input |-> d,
                            output |-> [appended |-> FALSE, event |-> r.event]]
                /\ UNCHANGED <<buffer, wake, nextId>>
           ELSE /\ call' = [fn |-> "_track_inner", input |-> d,
                            output |-> [appended |-> a.buffer # buffer,
                                        event |-> r.event]]
                /\ buffer' = a.buffer
                /\ wake' = (wake \/ a.wake_set \/ a.size >= batch_size)
                /\ nextId' = nextId + 1
    /\ UNCHANGED <<self_max_buffer_size, handlerVars, hostVars, in_flight, consecutive_failures,
                   backoff_until, shutdown_flag, done, recovery_path, spill,
                   recovering, now, pc, batch, ev, ctx, err, snap, trackRaised,
                   hist, lastTrack, sendVars>>

SanitizeNext == \E d \in TrackEvents : TrackInnerCall(d)

SanitizeSpec == Init /\ [][SanitizeNext]_vars

\* ------------------------------------------------- one producer, in order
\* A client with room for wide_max_buffer_size events and nothing on disk.
FlowInit ==
    /\ ConstructedWith("callable", wide_max_buffer_size)
    /\ buffer = <<>> /\ spill = NoFile /\ recovering = NoFile

\* flush() called by thread t; call records the buffer, the flag and the
\* deadline it found, the batch it went on to send and the buffer it left.
FlushCall(t) ==
    /\ FlushDrain(t)
    /\ call' = [fn |-> "flush",
                input |-> [buffer |-> buffer, in_flight |-> in_flight,
                           backoff |-> now < backoff_until],
                output |-> [batch |-> batch'[t], left |-> buffer']]
    /\ UNCHANGED <<hist, lastTrack, sendVars>>

\* _send returned for thread t: the server has the batch.
Deliver(t) ==
    /\ DoFlushOk(t)
    /\ hist' = [hist EXCEPT !.delivered = @ \o batch[t]]
    /\ UNCHANGED <<lastTrack, sendVars, call>>

\* The main thread tracks, any caller flushes, the worker runs, and every
\* send is answered 200.
FlowNext ==
    \/ nextId <= MaxFlowTrack
          /\ TrackBegin(Main, TrackInput("mapping", TRUE, 1, 0)) /\ Idle
    \/ TrackAppend(Main) /\ Idle
    \/ TrackWake(Main) /\ Idle
    \/ \E t \in Callers : FlushCall(t)
    \/ WorkerWake /\ Idle
    \/ WorkerDrain /\ Idle
    \/ \E t \in Threads : Deliver(t)
    \/ \E t \in Threads : CleanupRecovery(t) /\ Idle

FlowSpec == FlowInit /\ [][FlowNext]_vars

\* ------------------------------------------------------ the error callback
\* The send of thread t failed, step A of _do_flush: on_error is owed to it.
SendFails(t, A) ==
    /\ A
    /\ hist' = [hist EXCEPT !.owed = @ \cup {t}]
    /\ UNCHANGED <<lastTrack, sendVars, call>>

\* _call_on_error by thread t: the callback runs, and returns or raises;
\* call records the exception it was given and the failure count its batch
\* was drawn at.
OnErrorCall(t, raises) ==
    /\ OnError(t)
    /\ hist' = [hist EXCEPT !.owed = @ \ {t},
                            !.escaped = @ \/ on_error_propagates(raises)]
    /\ call' = [fn |-> "on_error",
                input |-> [exc |-> err[t], failures_before |-> snap[t][1]],
                output |-> raises]
    /\ UNCHANGED <<lastTrack, sendVars>>

\* The main thread tracks and flushes and the worker runs on a client whose
\* sends succeed or fail in every way, with a callback that may raise.
ErrorNext ==
    \/ Tick /\ Idle
    \/ nextId <= MaxTrack
          /\ TrackBegin(Main, TrackInput("mapping", TRUE, 1, 0)) /\ Idle
    \/ TrackAppend(Main) /\ Idle
    \/ TrackWake(Main) /\ Idle
    \/ FlushDrain(Main) /\ Idle
    \/ WorkerWake /\ Idle
    \/ WorkerDrain /\ Idle
    \/ \E t \in Threads : DoFlushOk(t) /\ Idle
    \/ \E t \in Threads : CleanupRecovery(t) /\ Idle
    \/ \E t \in Threads : SendFails(t, DoFlushNonRetryable(t))
    \/ \E t \in Threads : PersistCheck(t) /\ Idle
    \/ \E t \in Threads, w \in BOOLEAN : PersistWrite(t, w) /\ Idle
    \/ \E t \in Threads :
          SendFails(t, DoFlushRetry(t, ShortestDelay(consecutive_failures + 1)))
    \/ \E t \in Threads, w \in BOOLEAN : SendFails(t, DoFlushCap(t, w))
    \/ \E t \in Threads, r \in BOOLEAN : OnErrorCall(t, r)

ErrorSpec == Init /\ [][ErrorNext]_vars

\* _send returns to thread t, with any outcome.
SendReturns(t) ==
    \/ DoFlushOk(t) /\ Idle
    \/ SendFails(t, DoFlushNonRetryable(t))
    \/ SendFails(t, DoFlushRetry(t, ShortestDelay(consecutive_failures + 1)))
    \/ \E w \in BOOLEAN : SendFails(t, DoFlushCap(t, w))

\* Every send terminates: urlopen runs under timeout=SEND_TIMEOUT_S.
ReleaseSpec == ErrorSpec /\ WF_vars(\E t \in Threads : SendReturns(t))

\* -------------------------------------------------------------- adapters
\* A wrapped application, by what it does with one request: where it calls
\* start_response (or sends http.response.start): in the call, during the
\* iteration of its response, or never; with which status; where it raises;
\* and whether the client's track raises when the adapter calls it.
Apps ==
    [start_at : {"call", "iteration", "never"}, status : {201, 404},
     raises_at : {"none", "call", "iteration"}, track_raises : BOOLEAN]

\* What the server sees of one request and what the client was given: the
\* status_code of each track call, whether an exception reached the server,
\* and whether that exception came out of the tracking code.
Outcome(tracked, raised, escaped) ==
    [tracked |-> tracked, raised |-> raised, tracking_escaped |-> escaped]

\* The try / except Exception: pass around the adapters' tracking code; TRUE
\* iff an exception raised there reaches the server.
tracking_propagates(raised) == FALSE

\* ApiDashWSGI.__call__ and the iteration of the _ResponseWrapper it
\* returns by a server that consumes the response. status_code is the
\* variable tracking_start_response assigns; the wrapper is handed its value
\* when the application has returned.
wsgi_call(app) ==
    LET after_call == IF app.start_at = "call" THEN app.status ELSE 0
        wrapper_status_code == after_call
    IN  IF app.raises_at = "call"
        THEN Outcome(<<500>>, TRUE, tracking_propagates(app.track_raises))
        ELSE Outcome(<<wrapper_status_code>>, app.raises_at = "iteration",
                     tracking_propagates(app.track_raises))

\* ApiDashASGI.__call__: send_wrapper assigns status_code whenever the
\* application sends http.response.start, and the finally block reads it.
asgi_call(app) ==
    LET status_code ==
            IF app.start_at = "never" THEN 0
            ELSE IF app.start_at = "iteration" /\ app.raises_at = "call" THEN 0
            ELSE app.status
    IN  Outcome(<<status_code>>, app.raises_at # "none",
                tracking_propagates(app.track_raises))

\* One request through the WSGI adapter.
WsgiCall(app) ==
    /\ call = NoCall
    /\ call' = [fn |-> "wsgi", input |-> app, output |-> wsgi_call(app)]
    /\ UNCHANGED <<clientVars, handlerVars, hostVars, hist, lastTrack, sendVars>>

\* One request through the ASGI adapter.
AsgiCall(app) ==
    /\ call = NoCall
    /\ call' = [fn |-> "asgi", input |-> app, output |-> asgi_call(app)]
    /\ UNCHANGED <<clientVars, handlerVars, hostVars, hist, lastTrack, sendVars>>

AdapterNext ==
    \/ \E app \in Apps : WsgiCall(app)
    \/ \E app \in Apps : AsgiCall(app)

AdapterSpec == Init /\ [][AdapterNext]_vars

\* ------------------------------------------------------------------ retries
\* A client started on an empty disk with the default-shaped buffer
\* (max_buffer_size events): the main thread tracks MaxRetryTrack events and
\* flushes, the worker runs, and every send succeeds or fails in every way.
RetryInit ==
    /\ Constructed("callable")
    /\ buffer = <<>> /\ spill = NoFile /\ recovering = NoFile

RetryNext ==
    \/ Tick /\ Idle
    \/ nextId <= MaxRetryTrack
          /\ TrackBegin(Main, TrackInput("mapping", TRUE, 1, 0)) /\ Idle
    \/ TrackAppend(Main) /\ Idle
    \/ TrackWake(Main) /\ Idle
    \/ FlushDrain(Main) /\ Idle
    \/ WorkerWake /\ Idle
    \/ WorkerDrain /\ Idle
    \/ \E t \in Threads : Deliver(t)
    \/ \E t \in Threads : CleanupRecovery(t) /\ Idle
    \/ \E t \in Threads : DoFlushNonRetryable(t) /\ Idle
    \/ \E t \in Threads : PersistCheck(t) /\ Idle
    \/ \E t \in Threads, w \in BOOLEAN : PersistWrite(t, w) /\ Idle
    \/ \E t \in Threads :
          DoFlushRetry(t, ShortestDelay(consecutive_failures + 1)) /\ Idle
    \/ \E t \in Threads, w \in BOOLEAN : DoFlushCap(t, w) /\ Idle
    \/ \E t \in Threads : OnError(t) /\ Idle

RetrySpec == RetryInit /\ [][RetryNext]_vars

\* What thread t does between drawing a batch and returning from _do_flush.
FlushStep(t) ==
    \/ Deliver(t)
    \/ CleanupRecovery(t) /\ Idle
    \/ DoFlushNonRetryable(t) /\ Idle
    \/ PersistCheck(t) /\ Idle
    \/ \E w \in BOOLEAN : PersistWrite(t, w) /\ Idle
    \/ DoFlushRetry(t, ShortestDelay(consecutive_failures + 1)) /\ Idle
    \/ \E w \in BOOLEAN : DoFlushCap(t, w) /\ Idle
    \/ OnError(t) /\ Idle

\* The same client with room for wide_max_buffer_size events, no shutdown,
\* and a fair schedule: time passes, the worker's timed wait expires and it
\* goes on to _drain_batch, every send returns and its thread runs on.
\* Nothing obliges track or flush to be called.
ProgressSpec ==
    /\ FlowInit
    /\ [][RetryNext]_vars
    /\ WF_vars(Tick /\ Idle)
    /\ WF_vars(WorkerWake /\ Idle)
    /\ WF_vars(WorkerDrain /\ Idle)
    /\ \A t \in Threads : WF_vars(FlushStep(t))

\* ------------------------------------------------------------ one process
\* Thread t of the running process can run: the main thread stands still
\* while the handler runs on it.
Live(t) == proc = "running" /\ (t = Main => sig.pc = "none")

\* One process from construction on an empty disk: the main thread tracks
\* MaxRetryTrack events, flushes and calls shutdown(), the worker runs, a
\* signal is delivered at any point, and sends succeed or fail in every
\* way; the batches of the successful sends are recorded.
OneProcessNext ==
    \/ \E h \in BOOLEAN : SigArrive(h) /\ Idle
    \/ SigCheck /\ Idle
    \/ SigSet /\ Idle
    \/ SigSnap /\ Idle
    \/ SigPersistCheck /\ Idle
    \/ \E w \in BOOLEAN : SigPersistWrite(w) /\ Idle
    \/ SigForward /\ Idle
    \/ Step(Main, Tick)
    \/ nextId <= MaxRetryTrack
          /\ Step(Main, TrackBegin(Main, TrackInput("mapping", TRUE, 1, 0)))
    \/ Locked(Main, TrackAppend(Main))
    \/ Step(Main, TrackWake(Main))
    \/ Locked(Main, FlushDrain(Main))
    \/ Step(Worker, WorkerWake)
    \/ Locked(Worker, WorkerDrain)
    \/ \E t \in {Worker, Main} : Live(t) /\ LockFree /\ Deliver(t)
    \/ \E t \in {Worker, Main} : Step(t, CleanupRecovery(t))
    \/ \E t \in {Worker, Main} : Locked(t, DoFlushNonRetryable(t))
    \/ \E t \in {Worker, Main} : Step(t, PersistCheck(t))
    \/ \E t \in {Worker, Main}, w \in BOOLEAN : Step(t, PersistWrite(t, w))
    \/ \E t \in {Worker, Main} :
          Locked(t, DoFlushRetry(t, ShortestDelay(consecutive_failures + 1)))
    \/ \E t \in {Worker, Main}, w \in BOOLEAN : Locked(t, DoFlushCap(t, w))
    \/ \E t \in {Worker, Main} : Step(t, OnError(t))
    \/ Step(Main, ShutdownCheck(Main))
    \/ Step(Main, ShutdownSet(Main))
    \/ Locked(Main, ShutdownFlush(Main))
    \/ Locked(Main, ShutdownSnap(Main))
    \/ Step(Main, ShutdownPersistCheck(Main))
    \/ \E w \in BOOLEAN : Step(Main, ShutdownPersistWrite(Main, w))

OneProcessSpec == RetryInit /\ [][OneProcessNext]_vars

\* ------------------------------------------------------------------- replay
\* Lines a spill file may hold. A JSON value is an event id when it is an
\* object and 0 when it is anything else (a number, a string, null, a nested
\* array): an array of objects, an array with a value that is no object, an
\* empty array, a single object, an empty line, a line that is not JSON, and
\* a line holding a scalar.
ReplayLines ==
    { ArrayLine(<<11>>), ArrayLine(<<12, 13>>), ArrayLine(<<0, 14>>),
      ArrayLine(<<>>),
      [kind |-> "object", items |-> <<15>>],
      [kind |-> "empty", items |-> <<>>],
      [kind |-> "garbage", items |-> <<>>],
      [kind |-> "scalar", items |-> <<0>>] }

ReplayFiles ==
    UNION { [1..n -> ReplayLines] : n \in 0..MaxLines }

\* The reading half of _load_from_disk applied to one file; call records the
\* lines and the events that were put into the buffer.
LoadCall(ls) ==
    /\ call = NoCall
    /\ call' = [fn |-> "load_from_disk", input |-> ls,
                output |-> LoadedEvents(FileOf(ls))]
    /\ UNCHANGED <<clientVars, handlerVars, hostVars, hist, lastTrack, sendVars>>

ReplayNext == \E ls \in ReplayFiles : LoadCall(ls)

ReplaySpec == Init /\ [][ReplayNext]_vars

\* ---------------------------------------------------------- handler chain
ChainFrame ==
    UNCHANGED <<clientVars, handlerVars, prev_handler, sig, forwarded, proc,
                worker_started, atexit_hook, hist, lastTrack, sendVars, call>>

\* __init__ of client i on the main thread: signal.signal installs its
\* handler for both signals and returns the one that was installed.
ChainConstruct(i) ==
    /\ chain.alive
    /\ chain.state[i] = "none"
    /\ chain' = [chain EXCEPT
                    !.state[i] = "live",
                    !.original[i] = chain.installed,
                    !.installed = [s \in Signals |-> ClientHandler(i)]]
    /\ ChainFrame

\* shutdown() of client i: the stored handlers are installed again and
\* _original_handlers is cleared.
ChainShutdown(i) ==
    /\ chain.alive
    /\ chain.state[i] = "live"
    /\ chain' = [chain EXCEPT
                    !.state[i] = "shut",
                    !.installed = [s \in Signals |-> chain.original[i][s]],
                    !.original[i] = NoHandlers]
    /\ ChainFrame

\* Signal s is delivered on the main thread.
ChainSignal(s) ==
    /\ chain.alive
    /\ chain.signals < MaxSignals
    /\ chain' = run_handler(chain.installed[s], s,
                            [chain EXCEPT !.signals = @ + 1])
    /\ ChainFrame

ChainNext ==
    \/ \E i \in ChainClients : ChainConstruct(i)
    \/ \E i \in ChainClients : ChainShutdown(i)
    \/ \E s \in Signals : ChainSignal(s)

ChainSpec == Init /\ [][ChainNext]_vars

\* -------------------------------------------------------------- properties
\* The line _persist_to_disk adds for a batch, appended to file f.
WithLine(f, events) == FileOf(Append(f.lines, ArrayLine(events)))

\* No event of sequence b is in the buffer value buf.
NotIn(b, buf) == \A i \in 1..Len(b) : b[i] \notin Elems(buf)

\* C1. Single flight: at every instant at most one thread is between the
\* _drain_batch that handed it a batch and the block of _do_flush that clears
\* in_flight, whatever the interleaving of the worker with the callers of
\* flush() and shutdown().
SingleFlight == Cardinality({t \in Threads : pc[t] = "send"}) <= 1

\* A caller's batch is outstanding while the worker stands before its own
\* _drain_batch with events buffered and no backoff pending.
SingleFlightWitness ==
    \E t \in Callers :
        /\ pc[t] = "send"
        /\ pc[Worker] = "w_drain"
        /\ buffer # <<>>
        /\ now >= backoff_until

\* C2. Bounded memory: in every reachable state the buffer holds at most
\* max_buffer_size events.
BoundedMemory == Len(buffer) <= max_buffer_size

\* A batch of two was re-inserted behind which an event appended meanwhile
\* stands, and the buffer is exactly full.
BoundedMemoryWitness ==
    \E t \in Threads :
        /\ pc[t] = "on_error"
        /\ err[t] = "retryable"
        /\ consecutive_failures > 0
        /\ Len(batch[t]) = 2
        /\ Len(buffer) = max_buffer_size
        /\ buffer[1] = batch[t][1]
        /\ buffer[Len(buffer)] \notin Elems(batch[t])

\* C3. track never raises: no call of track lets an exception reach its
\* caller, and a call whose input cannot be interpreted (None, a non-mapping
\* value, an event that cannot be serialized) returns at once and leaves the
\* buffer as it was.
TrackNeverRaises ==
    [][ /\ ~trackRaised'
        /\ ( /\ lastTrack'.calls # lastTrack.calls
             /\ \/ lastTrack'.input.shape # "mapping"
                \/ ~lastTrack'.input.serializable )
           => (buffer' = buffer /\ pc'[lastTrack'.by] = "idle") ]_vars

\* The last call handed None to a client that is not shut down, and returned.
TrackNeverRaisesWitness ==
    /\ lastTrack.calls > 0
    /\ lastTrack.input.shape = "none"
    /\ pc[lastTrack.by] = "idle"
    /\ ~shutdown_flag
    /\ ~trackRaised

\* A call of track by thread t returns in this step: from the block under
\* the lock, or before it (client shut down, input rejected).
TrackReturnsLocked(t) == pc[t] = "t_append" /\ pc'[t] # "t_append"

TrackReturnsEarly(t) ==
    lastTrack'.calls # lastTrack.calls /\ lastTrack'.by = t /\ pc'[t] = "idle"

\* C4, as amended. With max_buffer_size events buffered, a call of track
\* that reaches the block under the lock (its event passed the sanitizer and
\* the size check on a client not shut down) leaves the buffer as it is and
\* raises wake; a call that returns before the lock also leaves the buffer
\* as it is, and leaves wake as it is.
FullBufferTrack ==
    [][ \A t \in Callers :
          Len(buffer) >= max_buffer_size =>
             /\ TrackReturnsLocked(t) => (buffer' = buffer /\ wake')
             /\ TrackReturnsEarly(t) => (buffer' = buffer /\ wake' = wake) ]_vars

\* The replayed events fill the buffer, an accepted event was turned away
\* and wake is up on a client that nobody shut down.
FullBufferTrackWitness ==
    /\ buffer = <<11, 12>>
    /\ Len(buffer) = max_buffer_size
    /\ nextId > 1
    /\ \A t \in Callers : pc[t] = "idle"
    /\ wake
    /\ ~shutdown_flag

\* C4, as stated: with max_buffer_size events buffered, every call of track
\* leaves the buffer as it is and raises wake.
FullBufferTrackAlwaysWakes ==
    [][ \A t \in Callers :
          (Len(buffer) >= max_buffer_size
             /\ (TrackReturnsLocked(t) \/ TrackReturnsEarly(t)))
          => (buffer' = buffer /\ wake') ]_vars

SuccessResets ==
    [][ \A t \in Threads :
          (pc[t] = "send" /\ pc'[t] = "cleanup") =>
             /\ consecutive_failures' = 0
             /\ backoff_until' = 0
             /\ ~in_flight'
             /\ NotIn(batch[t], buffer') ]_vars

\* A send succeeded whose batch was drawn with failures counted and a
\* deadline set.
SuccessResetsWitness ==
    \E t \in Threads :
        /\ pc[t] = "cleanup"
        /\ snap[t][1] > 0
        /\ snap[t][2] > 0
        /\ consecutive_failures = 0
        /\ backoff_until = 0
        /\ ~in_flight

\* Thread t handles a retryable failure in this step: below the cap
\* (RetryStep), or the one that reaches it (CapStep).
RetryStep(t) ==
    /\ pc[t] = "send"
    /\ pc'[t] = "on_error"
    /\ err'[t] = "retryable"
    /\ consecutive_failures + 1 < 5

CapStep(t) ==
    /\ pc[t] = "send"
    /\ pc'[t] = "on_error"
    /\ err'[t] = "retryable"
    /\ consecutive_failures + 1 >= 5

\* C7, as amended. A retryable failure below the cap, in one step: the
\* counter grows by 1, the first min(len(batch), max_buffer_size -
\* len(buffer)) events of the batch are put at the front of the buffer in
\* their order, ahead of every event appended while the batch was in flight,
\* backoff_until is later than now, in_flight is false and the spill file is
\* as it was.
RetryReinsertsClipped ==
    [][ \A t \in Threads :
          RetryStep(t) =>
             /\ consecutive_failures' = consecutive_failures + 1
             /\ buffer' =
                  SubSeq(batch[t], 1,
                         Min(Len(batch[t]), max_buffer_size - Len(buffer)))
                      \o buffer
             /\ backoff_until' > now
             /\ ~in_flight'
             /\ spill' = spill ]_vars

\* A batch of one came back whole, ahead of an event appended meanwhile.
RetryReinsertsClippedWitness ==
    \E t \in Threads :
        /\ pc[t] = "on_error"
        /\ err[t] = "retryable"
        /\ consecutive_failures = snap[t][1] + 1
        /\ backoff_until > now
        /\ ~in_flight
        /\ Len(batch[t]) = 1
        /\ Len(buffer) = 2
        /\ buffer[1] = batch[t][1]
        /\ buffer[2] \in 1..MaxTrack

\* C7, as stated: the whole batch is put back at the front.
RetryReinsertsWhole ==
    [][ \A t \in Threads :
          RetryStep(t) =>
             /\ consecutive_failures' = consecutive_failures + 1
             /\ buffer' = batch[t] \o buffer
             /\ backoff_until' > now
             /\ ~in_flight'
             /\ spill' = spill ]_vars

\* C8, as amended. The retryable failure that brings the counter to the cap
\* leaves the counter at 0, in_flight false and the buffer as it was; the
\* batch is appended to the spill file as one line when the file is below
\* max_storage_bytes and the write does not fail, and is dropped otherwise.
FailureCapSpills ==
    [][ \A t \in Threads :
          CapStep(t) =>
             /\ consecutive_failures' = 0
             /\ ~in_flight'
             /\ buffer' = buffer
             /\ NotIn(batch[t], buffer')
             /\ IF FileSize(spill) < max_storage_bytes
                THEN spill' \in {WithLine(spill, batch[t]), spill}
                ELSE spill' = spill ]_vars

\* The fifth failure in a row was handled and its batch is the last line of
\* the spill file.
FailureCapSpillsWitness ==
    \E t \in Threads :
        /\ pc[t] = "on_error"
        /\ err[t] = "retryable"
        /\ snap[t][1] = 4
        /\ consecutive_failures = 0
        /\ ~in_flight
        /\ spill.exists
        /\ spill.lines[Len(spill.lines)] = ArrayLine(batch[t])

\* C8, as stated: the batch of the failure that reaches the cap is on disk.
FailureCapAlwaysOnDisk ==
    [][ \A t \in Threads :
          CapStep(t) =>
             /\ consecutive_failures' = 0
             /\ ~in_flight'
             /\ buffer' = buffer
             /\ spill' = WithLine(spill, batch[t]) ]_vars

\* Thread t, in the non-retryable path: the block under the lock, and the
\* size check and the write of the _persist_to_disk call after it.
NonRetryStep(t) == pc[t] = "send" /\ pc'[t] = "persist"

NonRetryCheckStep(t) == pc[t] = "persist" /\ pc'[t] # "persist"

NonRetryWriteStep(t) == pc[t] = "persist_w" /\ pc'[t] # "persist_w"

\* C9, as amended. A non-retryable failure sets in_flight false and leaves
\* consecutive_failures and backoff_until at the values they had when the
\* batch was drawn; the batch is never back in the buffer; it is appended to
\* the spill file when the file is below max_storage_bytes and the write
\* does not fail, and is dropped otherwise.
NonRetryableSpills ==
    [][ \A t \in Threads :
          /\ NonRetryStep(t) =>
                /\ ~in_flight'
                /\ consecutive_failures' = snap[t][1]
                /\ backoff_until' = snap[t][2]
                /\ buffer' = buffer
          /\ NonRetryCheckStep(t) =>
                /\ UNCHANGED <<buffer, consecutive_failures, backoff_until,
                               spill>>
                /\ pc'[t] = IF FileSize(spill) < max_storage_bytes
                            THEN "persist_w" ELSE "on_error"
          /\ NonRetryWriteStep(t) =>
                /\ UNCHANGED <<buffer, consecutive_failures, backoff_until>>
                /\ spill' \in {WithLine(spill, batch[t]), spill}
          /\ (pc'[t] \in {"persist", "persist_w", "on_error"}
                 /\ err'[t] = "non_retryable")
                => NotIn(batch'[t], buffer') ]_vars

\* A batch drawn after a retryable failure was refused for good: it is the
\* last line of the spill file, and the counter and the deadline stand.
NonRetryableSpillsWitness ==
    \E t \in Threads :
        /\ pc[t] = "on_error"
        /\ err[t] = "non_retryable"
        /\ snap[t][1] > 0
        /\ snap[t][2] > 0
        /\ consecutive_failures = snap[t][1]
        /\ backoff_until = snap[t][2]
        /\ ~in_flight
        /\ spill.exists
        /\ spill.lines[Len(spill.lines)] = ArrayLine(batch[t])

\* C9, as stated: the batch is appended to the spill file.
NonRetryableAlwaysOnDisk ==
    [][ \A t \in Threads :
          /\ NonRetryStep(t) =>
                /\ ~in_flight'
                /\ consecutive_failures' = snap[t][1]
                /\ backoff_until' = snap[t][2]
                /\ buffer' = buffer
          /\ NonRetryCheckStep(t) => pc'[t] = "persist_w"
          /\ NonRetryWriteStep(t) =>
                /\ buffer' = buffer
                /\ spill' = WithLine(spill, batch[t]) ]_vars

\* C10. Backoff gate: while now < backoff_until no thread is handed a batch,
\* and the _drain_batch of the worker and of shutdown's final flush leaves
\* the buffer and in_flight as they were (a refused flush() changes nothing
\* at all).
BackoffGate ==
    [][ now < backoff_until =>
          \A t \in Threads :
             /\ pc'[t] = "send" => pc[t] = "send"
             /\ ( \/ (pc[t] = "w_drain" /\ pc'[t] # "w_drain")
                  \/ (pc[t] = "sd_join" /\ pc'[t] # "sd_join") )
                => /\ buffer' = buffer
                   /\ in_flight' = in_flight
                   /\ batch'[t] = <<>> ]_vars

\* shutdown's final flush came back empty-handed before the deadline, with
\* events buffered and nothing in flight.
BackoffGateWitness ==
    \E t \in Callers :
        /\ pc[t] = "sd_snap"
        /\ batch[t] = <<>>
        /\ now < backoff_until
        /\ buffer # <<>>
        /\ ~in_flight

\* C11. Backoff monotonicity: the k-th retryable failure in a row (k below
\* the cap) sets backoff_until at least BASE_BACKOFF * 2^(k-1) * 0.5 beyond
\* the deadline it replaces, and at most BASE_BACKOFF * 2^(k-1) beyond now.
BackoffGrows ==
    [][ \A t \in Threads :
          RetryStep(t) =>
             LET k == consecutive_failures + 1
                 unit == TicksPerSecond * BASE_BACKOFF_S * Pow2(k - 1)
             IN /\ 2 * (backoff_until' - backoff_until) >= unit
                /\ backoff_until' - now <= unit ]_vars

\* The third failure in a row came some time after the second deadline and
\* drew the longest delay.
BackoffGrowsWitness ==
    \E t \in Threads :
        /\ pc[t] = "on_error"
        /\ err[t] = "retryable"
        /\ consecutive_failures = 3
        /\ snap[t][1] = 2
        /\ snap[t][2] > 0
        /\ now > snap[t][2]
        /\ backoff_until = now + TicksPerSecond * BASE_BACKOFF_S * 4

RECURSIVE LinesEvents(_)
LinesEvents(ls) ==
    IF ls = <<>> THEN <<>> ELSE ParseLine(ls[1]) \o LinesEvents(Tail(ls))

FileEvents(f) == IF f.exists THEN LinesEvents(f.lines) ELSE <<>>

\* A constructor call returns a client.
ConstructStep == proc # "running" /\ proc' = "running"

\* Thread t leaves _cleanup_recovery_file after a successful send.
CleanupStep(t) == proc = "running" /\ pc[t] = "cleanup" /\ pc'[t] # "cleanup"

\* C13: a client constructed while storage_path holds spilled batches has
\* exactly the events of that file in its buffer and leaves the file at the
\* .recovering path, storage_path absent; once the next successful send is
\* through, with no failed send since the construction, neither file exists.
RecoveryProtocol ==
    [][ /\ ConstructStep /\ spill.exists =>
              /\ buffer' = FileEvents(spill)
              /\ recovering' = spill
              /\ ~spill'.exists
        /\ \A t \in Threads :
              CleanupStep(t) /\ ~hist.failed /\ hist.replayed # {} =>
                 ~spill'.exists /\ ~recovering'.exists ]_vars

\* C14: when a client was constructed over spilled events and no send has
\* been acknowledged since, every later construction over the same paths has
\* the same events in its buffer, each once.
ReplayStable ==
    [][ ConstructStep /\ hist.boots >= 1 /\ hist.first # <<>> /\ hist.acked = {} =>
           /\ buffer' = hist.first
           /\ \A i, j \in 1..Len(buffer') : i # j => buffer'[i] # buffer'[j] ]_vars

\* Event e is in the .recovering file or in the spill file.
OnDisk(e) == e \in Elems(FileEvents(recovering)) \cup Elems(FileEvents(spill))

\* C15: an event replayed from disk at startup is on disk, in the
\* .recovering file or in the spill file, at every moment until a send whose
\* batch contains it has succeeded.
ReplayedStayOnDisk ==
    proc = "running" => \A e \in hist.replayed \ hist.acked : OnDisk(e)

\* The api_key is empty or holds a control character, or the endpoint is
\* empty or rejected by validate_endpoint.
BadOptions(o) ==
    \/ o.api_key = <<>>
    \/ has_control_char(o.api_key)
    \/ o.endpoint.empty
    \/ endpoint_rejected(o.endpoint)

ShutdownReturns(t) ==
    /\ pc[t] \in {"sd_snap", "sd_persist", "sd_persist_w"}
    /\ pc'[t] = "idle"

\* Event e was handed to track() (replayed events carry ids above 10).
Tracked(e) == e \in 1..MaxTrack

\* C16: when shutdown() returns the buffer is empty and every event track
\* accepted that no 2xx response acknowledged is in the spill file, as long
\* as the spill file was below max_storage_bytes; this covers the events of
\* a send the worker still has outstanding after the join timed out.
ShutdownDrains ==
    [][ \A t \in Callers :
          ShutdownReturns(t) /\ StorageHasRoom(spill) =>
             /\ buffer' = <<>>
             /\ pc[Worker] = "send" =>
                   \A e \in Elems(batch[Worker]) :
                      Tracked(e) => e \in Elems(FileEvents(spill')) ]_vars

\* Thread t is inside shutdown(), past the test of self._shutdown.
InShutdown(t) ==
    \/ pc[t] \in {"sd_set", "sd_join", "sd_snap", "sd_persist", "sd_persist_w"}
    \/ ctx[t] = "shutdown"

\* C17: whatever calls of shutdown() are made, one after another or at the
\* same time, at most one of them gets past the test of _shutdown to the
\* final flush and the spill, and once shutdown is over the handlers that
\* were installed before the client are back in place.
ShutdownOnce ==
    /\ Cardinality({t \in Callers : InShutdown(t)}) <= 1
    /\ shutdown_flag /\ (\A t \in Callers : ~InShutdown(t)) => ~handler_installed

\* A shutdown() call has set the flag, snapshotted the buffer and cleared
\* it, and no other call is still on its way to its own snapshot.
Snapshotted ==
    /\ shutdown_flag
    /\ \A t \in Callers : InShutdown(t) => pc[t] \in {"sd_persist", "sd_persist_w"}

\* C18: once shutdown has snapshotted and cleared the buffer, no track()
\* call, later or concurrent, appends an event to it.
NoTrackAfterShutdown ==
    [][ \A t \in Callers :
          Snapshotted /\ TrackReturnsLocked(t) => buffer' = buffer ]_vars

\* _signal_handler forwards the signal and returns.
SigForwardStep == sig.pc = "forward" /\ sig'.pc = "none"

\* C19: the handler forwards the signal only after it has emptied the buffer
\* for the spill, so it never leaves events behind in it, and it forwards to
\* the handler installed before the client: a callable one is called, the
\* default disposition gets the signal raised again.
SignalSpillsThenForwards ==
    [][ SigForwardStep =>
           /\ sig.left = <<>>
           /\ prev_handler = "callable" => forwarded' = "called"
           /\ prev_handler = "SIG_DFL" => forwarded' = "killed" ]_vars

\* The IPv4 ranges the address filter is to cover: 10/8, 172.16/12,
\* 192.168/16, 100.64/10, 127/8, 169.254/16 and 0.0.0.0.
ListedV4(q) ==
    \/ q[1] \in {10, 127}
    \/ q[1] = 172 /\ q[2] \in 16..31
    \/ q[1] = 192 /\ q[2] = 168
    \/ q[1] = 100 /\ q[2] \in 64..127
    \/ q[1] = 169 /\ q[2] = 254
    \/ q = <<0, 0, 0, 0>>

\* Host h is an IP literal of a listed range: IPv4, IPv4-mapped, or IPv6 in
\* fc00::/7, ::1 or fe80::/10.
ListedAddress(h) ==
    \/ h.kind = "dotted" /\ (\A i \in 1..4 : h.parts[i] <= 255) /\ ListedV4(h.parts)
    \/ h.kind = "mapped" /\ ListedV4(h.parts)
    \/ h.kind = "v6" /\ \/ h.parts[1] \in 64512..65023
                        \/ h.parts[1] \in 65152..65215
                        \/ h.parts = <<0, 0, 1>>

\* Host h is a DNS name or a public address: 8.x.x.x, plain or IPv4-mapped,
\* or 2606::/16.
PublicHost(h) ==
    \/ h.kind = "name"
    \/ h.kind \in {"dotted", "mapped"} /\ h.parts[1] = 8
          /\ \A i \in 1..4 : h.parts[i] <= 255
    \/ h.kind = "v6" /\ h.parts[1] = 9734

\* C22: is_private_ip is true for every IP literal in 10/8, 172.16/12,
\* 192.168/16, 100.64/10, 127/8, 169.254/16, 0.0.0.0, fc00::/7, ::1 and
\* fe80::/10 and for every IPv4-mapped literal of one of the IPv4 ranges,
\* and false for public literals, mapped public literals and DNS names.
PrivateRangesCovered ==
    call.fn = "is_private_ip" =>
       /\ ListedAddress(call.input) => call.output
       /\ PublicHost(call.input) => ~call.output

\* The hostnames for which plain HTTP is allowed: localhost, 127.0.0.1, ::1.
LoopbackName(h) ==
    \/ h.kind = "name" /\ h.text = "localhost"
    \/ h.kind = "dotted" /\ h.parts = <<127, 0, 0, 1>>
    \/ h.kind = "v6" /\ h.parts = <<0, 0, 1>>

\* The URL is one the endpoint rules refuse: empty, without scheme or
\* hostname, plaintext to a host that is not the loopback, with a username or
\* a password, or to an IP literal of a listed private or reserved range.
RefusedUrl(ep) ==
    \/ ep.empty
    \/ ep.scheme = "" \/ ep.hostname.kind = "none"
    \/ ep.scheme # "https" /\ ~LoopbackName(ep.hostname)
    \/ ep.username \notin {"absent", ""} \/ ep.password \notin {"absent", ""}
    \/ ~LoopbackName(ep.hostname) /\ ListedAddress(ep.hostname)

\* The URL is one the endpoint rules accept: none of the above, to the
\* loopback, a DNS name or a public address.
AcceptedUrl(ep) ==
    /\ ~ep.empty /\ ep.scheme # "" /\ ep.hostname.kind # "none"
    /\ ep.scheme = "https" \/ LoopbackName(ep.hostname)
    /\ ep.username = "absent" /\ ep.password = "absent"
    /\ LoopbackName(ep.hostname) \/ PublicHost(ep.hostname)

\* C21: validate_endpoint returns its input unchanged exactly when the URL is
\* non-empty, has a scheme and a hostname, uses https or names the loopback,
\* carries no username or password, and its hostname is no IP literal of a
\* private or reserved range; in every other case it raises.
SsrfClosure ==
    call.fn = "validate_endpoint" =>
       /\ ~call.output.raised => call.output.value = call.input
       /\ RefusedUrl(call.input) => call.output.raised
       /\ AcceptedUrl(call.input) => ~call.output.raised

\* A C0 control character, DEL, or a C1 control character.
ControlChar(c) == c \in (0..31) \cup {127} \cup (128..159)

\* C28: the constructor rejects every api_key with a C0 control character,
\* DEL or a C1 control character, and accepts a non-empty api_key with none.
ControlCharsRejected ==
    call.fn = "__init__" =>
       LET k == call.input
           dirty == \E i \in 1..Len(k) : ControlChar(k[i])
       IN  /\ dirty => call.output
           /\ k # <<>> /\ ~dirty => ~call.output

\* String s has no character that upper-casing changes.
UpperCase(s) == \A i \in 1..Len(s) : s[i] \notin (97..122) \cup {223}

\* C23: every event track appends is sanitized: method upper-case of at most
\* 16 characters, path of at most 2048, a present consumer_id of at most 256,
\* a non-empty timestamp (the caller's when it gave one), and a compact JSON
\* form of at most max_event_bytes, with metadata removed only to get there.
AppendedSanitized ==
    (call.fn = "_track_inner" /\ call.output.appended) =>
       LET d == call.input
           e == call.output.event
       IN  /\ e.method.kind = "str" /\ UpperCase(e.method.s)
           /\ Len(e.method.s) <= 16
           /\ e.path.kind = "str" /\ Len(e.path.s) <= 2048
           /\ e.consumer_id.kind = "str" => Len(e.consumer_id.s) <= 256
           /\ e.timestamp.kind = "str" /\ e.timestamp.s # <<>>
           /\ (d.timestamp.kind = "str" /\ d.timestamp.s # <<>>)
                 => e.timestamp = d.timestamp
           /\ json_bytes(e) <= max_event_bytes
           /\ e.metadata \in {d.metadata, Absent}
           /\ e.metadata # d.metadata
                 => json_bytes([e EXCEPT !.metadata = d.metadata]) > max_event_bytes

\* C24: one flush() on a buffer of n events, with nothing in flight and no
\* backoff pending, makes exactly one send, of the first min(n, batch_size)
\* events in order, and leaves the other events in the buffer in order; on
\* an empty buffer it makes no send.
FlushOneBatch ==
    /\ [](call.fn = "flush" =>
            LET b == call.input.buffer
                n == Len(b)
                k == IF n < batch_size THEN n ELSE batch_size
            IN  /\ n = 0 => call.output.batch = <<>> /\ call.output.left = <<>>
                /\ (n > 0 /\ ~call.input.in_flight /\ ~call.input.backoff) =>
                      /\ call.output.batch = SubSeq(b, 1, k)
                      /\ call.output.left = SubSeq(b, k + 1, n))
    /\ [][\A t \in Callers :
             /\ (pc[t] = "idle" /\ pc'[t] = "send") =>
                   /\ call'.fn = "flush"
                   /\ batch'[t] = call'.output.batch
                   /\ batch'[t] # <<>>
             /\ (pc[t] = "idle" /\ call' # call /\ call'.output.batch = <<>>) =>
                   pc'[t] = "idle"
             /\ pc[t] \notin {"idle", "send"} => pc'[t] # "send"]_vars

\* A flush() found more than batch_size events, nothing in flight and no
\* backoff, and left events behind.
FlushOneBatchWitness ==
    /\ call.fn = "flush"
    /\ Len(call.input.buffer) > batch_size
    /\ ~call.input.in_flight /\ ~call.input.backoff
    /\ call.output.left # <<>>

\* C25: with one producer, no failed send and no restart, the events reach
\* the server in the order of the track calls, across batches and whoever
\* sends each batch, the worker or a caller of flush().
DeliveredInOrder ==
    \A i \in 1..Len(hist.delivered) : \A j \in 1..Len(hist.delivered) :
       i < j => hist.delivered[i] < hist.delivered[j]

\* More than one batch has reached the server, one of them sent by flush().
DeliveredInOrderWitness ==
    /\ Len(hist.delivered) > batch_size
    /\ call.fn = "flush" /\ call.output.batch # <<>>
    /\ call.output.batch[1] \in Elems(hist.delivered)
    /\ \E i \in 1..Len(hist.delivered) :
          hist.delivered[i] \notin Elems(call.output.batch)

\* Thread t is between a failed send and the return of its callback.
AwaitingCallback(t) == pc[t] \in {"persist", "persist_w", "on_error"}

\* C26: on_error is invoked exactly once for every failed send, of whatever
\* kind, and never for a successful one; it is invoked after the state
\* update, outside the block under the lock; an exception of the callback
\* is swallowed and changes no client state.
OnErrorOnce ==
    /\ [](~hist.escaped)
    /\ [](\A t \in Threads : t \in hist.owed <=> AwaitingCallback(t))
    /\ [][\A t \in Threads :
             /\ (pc[t] = "send" /\ pc'[t] = "cleanup") => t \notin hist'.owed
             /\ (pc[t] = "send" /\ pc'[t] \notin {"send", "cleanup"}) =>
                   /\ t \in hist'.owed
                   /\ ~in_flight'
             /\ (t \in hist.owed /\ t \notin hist'.owed) =>
                   /\ pc[t] = "on_error" /\ err[t] # "none"
                   /\ pc'[t] \in {"idle", "wait", "exit"}
                   /\ UNCHANGED <<buffer, in_flight, consecutive_failures,
                                  backoff_until, wake, shutdown_flag, done,
                                  spill, recovering, recovery_path>>]_vars

\* The callback raised after the retryable failure that reached the cap.
OnErrorOnceWitness ==
    /\ call.fn = "on_error" /\ call.output
    /\ call.input.exc = "retryable"
    /\ call.input.failures_before = MAX_CONSECUTIVE_FAILURES - 1

\* C27: for every request through the WSGI or ASGI adapter with a client
\* attached, track is called exactly once, however the application ends
\* and wherever it starts its response; the status_code recorded is the one
\* the application responded with; an exception of the application reaches
\* the server, and none of the tracking code does.
AdapterContract ==
    call.fn \in {"wsgi", "asgi"} =>
       LET app == call.input
           out == call.output
       IN  /\ Len(out.tracked) = 1
           /\ (app.start_at # "never" /\ app.raises_at = "none") =>
                 out.tracked[1] = app.status
           /\ out.raised = (app.raises_at # "none")
           /\ ~out.tracking_escaped

\* The step is a block under self._lock: it assigns a field the lock guards.
LockedStep ==
    \/ buffer' # buffer
    \/ in_flight' # in_flight
    \/ consecutive_failures' # consecutive_failures
    \/ backoff_until' # backoff_until

\* The step writes the spill file or removes the recovery file.
DiskStep == spill' # spill \/ recovering' # recovering

\* C29: on every path (success, failure for good, failure below and at the
\* cap, shutdown) the write to the spill file runs while the lock is not
\* held: no block under the lock touches the disk.
NoIoUnderLock == [][~(LockedStep /\ DiskStep)]_vars

\* C30: the worker sends at most one batch per wake, and when events remain
\* in the buffer after the flush of a wake, the next wake follows at once:
\* the worker goes back to its wait with wake set, so that the wait returns
\* without the timeout and without a further call of track.
WorkerRewakes ==
    [][ /\ pc'[Worker] = "send" => pc[Worker] \in {"w_drain", "send"}
        /\ pc'[Worker] = "w_drain" => pc[Worker] \in {"wait", "w_drain"}
        /\ (pc[Worker] = "cleanup" /\ pc'[Worker] = "wait" /\ buffer' # <<>>)
              => wake' ]_vars

\* Thread t re-inserts its batch after a retryable failure below the cap.
ReinsertStep(t) ==
    /\ pc[t] = "send"
    /\ pc'[t] = "on_error"
    /\ consecutive_failures' = consecutive_failures + 1

\* C31: when a batch is re-inserted after a retryable failure into a buffer
\* that producers have filled meanwhile, the events of the batch that do not
\* fit have been written to disk before the re-insertion.
ClippedAreSpilled ==
    [][ \A t \in Threads :
          ReinsertStep(t) =>
             \A e \in Elems(batch[t]) \ Elems(buffer') : OnDisk(e) ]_vars

\* A step takes a file of stored events off the disk: the .recovering file
\* goes, or the spill file goes without having been moved to .recovering.
FileRemoved ==
    \/ recovering.exists /\ ~recovering'.exists
    \/ spill.exists /\ ~spill'.exists /\ recovering' # spill

\* C32: a stored file is removed from disk only by the cleanup that follows
\* a successful send; no constructor step (replay, rename, failing rename),
\* failed send or other step deletes the spill file or the .recovering file.
RemovedOnlyAfterSuccess ==
    [][ FileRemoved => \E t \in Threads : CleanupStep(t) ]_vars

\* A JSON value that is an object (a dict).
IsObject(v) == v > 0

AllObjects(items) == \A i \in 1..Len(items) : IsObject(items[i])

\* What replay is to take from one line: the elements of an array of
\* objects, a single object, and nothing from any other line.
ReplayOfLine(line) ==
    IF line.kind \in {"array", "object"} /\ AllObjects(line.items)
    THEN line.items ELSE <<>>

RECURSIVE ReplayOfLines(_)
ReplayOfLines(ls) ==
    IF ls = <<>> THEN <<>> ELSE ReplayOfLine(ls[1]) \o ReplayOfLines(Tail(ls))

\* C33: replay puts into the buffer, in file order, the elements of every
\* line that is an array of objects and every line that is a single object,
\* nothing from any other line, only objects, and at most max_buffer_size
\* events.
ReplayParses ==
    call.fn = "load_from_disk" =>
        /\ call.output = Take(ReplayOfLines(call.input), max_buffer_size)
        /\ AllObjects(call.output)

\* A client has been constructed and shutdown() has run on every client
\* that was constructed.
AllShutDown ==
    /\ \E i \in ChainClients : chain.state[i] # "none"
    /\ \A i \in ChainClients : chain.state[i] \in {"none", "shut"}

\* C34: with any number of clients constructed on the main thread and shut
\* down in any order, every delivered SIGTERM or SIGINT reaches the handler
\* the host had installed before the first client, and once every client
\* has been shut down that handler is the installed one.
HandlerChain ==
    /\ [](AllShutDown =>
             \A s \in Signals : chain.installed[s] = HostHandler)
    /\ [][chain'.signals # chain.signals => chain'.reached = "host"]_vars

\* The worker has left the loop of _run, or the process has ended.
WorkerGone == pc[Worker] = "exit" \/ proc = "dead"

\* C35: once _done is set the worker eventually leaves its loop, every send
\* returning, and a wake on which it finds _done set draws no batch.
WorkerTerminates ==
    /\ done ~> WorkerGone
    /\ [][ (pc[Worker] = "wait" /\ done /\ pc'[Worker] # "wait") =>
              pc'[Worker] = "exit" ]_vars

\* C36: consecutive_failures stays within 0..MAX_CONSECUTIVE_FAILURES - 1,
\* and it changes only by +1 on a retryable failure or by a reset to 0 on a
\* success or on the failure that reaches MAX_CONSECUTIVE_FAILURES.
FailureCounterRange ==
    /\ [](consecutive_failures \in 0..(MAX_CONSECUTIVE_FAILURES - 1))
    /\ [][ consecutive_failures' # consecutive_failures =>
              \E t \in Threads :
                 /\ pc[t] = "send"
                 /\ \/ /\ pc'[t] = "on_error" /\ err'[t] = "retryable"
                       /\ consecutive_failures' = consecutive_failures + 1
                    \/ /\ pc'[t] = "cleanup"
                       /\ consecutive_failures' = 0
                    \/ /\ pc'[t] = "on_error" /\ err'[t] = "retryable"
                       /\ consecutive_failures + 1 = MAX_CONSECUTIVE_FAILURES
                       /\ consecutive_failures' = 0 ]_vars

\* The retryable failure that reaches the cap has reset the counter.
FailureCounterWitness ==
    \E t \in Threads :
        /\ pc[t] = "on_error" /\ err[t] = "retryable"
        /\ snap[t][1] = MAX_CONSECUTIVE_FAILURES - 1
        /\ consecutive_failures = 0

\* C37: a signal handler entered on the main thread, at whatever point of a
\* track, flush or shutdown call, runs to its end: its spill finishes and
\* the signal is forwarded; it never waits for the lock forever.
HandlerCompletes ==
    (sig.pc # "none") ~> (sig.pc = "none" /\ forwarded # "none")

\* C38: a batch drawn by _drain_batch sets in_flight, and every outcome of
\* its send (success, retryable, retryable at the cap, non-retryable, with a
\* failing disk write or a raising on_error) resets it: in_flight is set
\* exactly while a thread is between its draw and the end of its send, the
\* step that ends the send clears it, and a set flag is eventually cleared.
InFlightReleased ==
    /\ [](in_flight <=> \E t \in Threads : pc[t] = "send")
    /\ [][ \A t \in Threads :
              (pc[t] = "send" /\ pc'[t] # "send") => ~in_flight' ]_vars
    /\ in_flight ~> ~in_flight

\* After a failed send whose on_error callback raised, a batch has been
\* drawn again.
InFlightReleasedWitness ==
    /\ call.fn = "on_error" /\ call.output
    /\ in_flight
    /\ \E t \in Threads : pc[t] = "send"

\* Event e is in the batch of a send that is under way.
InSend(e) == \E t \in Threads : pc[t] = "send" /\ e \in Elems(batch[t])

\* C39: with no shutdown and a fair schedule every event in the buffer is
\* eventually drawn into a send, whether or not track is called again, a
\* re-inserted batch included, and no batch is drawn before backoff_until.
ProgressNoSpin ==
    /\ \A e \in 1..MaxRetryTrack : (e \in Elems(buffer)) ~> InSend(e)
    /\ [][ \A t \in Threads :
              (pc[t] # "send" /\ pc'[t] = "send") => now >= backoff_until ]_vars

\* The worker has drawn a re-inserted batch again, the deadline passed, with
\* an event left waiting behind it.
ProgressNoSpinWitness ==
    /\ pc[Worker] = "send"
    /\ consecutive_failures > 0
    /\ backoff_until > 0 /\ now >= backoff_until
    /\ buffer # <<>>

\* How often e occurs in the sequence q.
Occurrences(e, q) == Cardinality({i \in 1..Len(q) : q[i] = e})

\* C40: an event accepted by track is never both in the buffer and in a
\* batch in flight, never in the spill file while it is in the buffer, and
\* in at most one successful send.
NoDuplication ==
    \A e \in 1..MaxRetryTrack :
        /\ Occurrences(e, buffer) <= 1
        /\ ~(e \in Elems(buffer) /\ InSend(e))
        /\ ~(e \in Elems(buffer) /\ e \in Elems(FileEvents(spill)))
        /\ Occurrences(e, hist.delivered) <= 1

\* A batch that failed once and was re-inserted has been sent successfully,
\* while another event is in the spill file.
NoDuplicationWitness ==
    /\ hist.delivered # <<>>
    /\ consecutive_failures = 0 /\ backoff_until = 0
    /\ \E t \in Threads : pc[t] = "cleanup" /\ snap[t][1] > 0
    /\ FileEvents(spill) # <<>>

====
